---------------------------- MODULE Spec2Model ----------------------------
(***************************************************************************)
(* MoguMood: station-range discovery and multi-station restaurant search.  *)
(*                                                                         *)
(* The module models POST /api/places: the validation of the body, the     *)
(* radius-mode search (searchByRadius, PlacesService.searchByText) and the *)
(* station-mode search (searchByStations), the Directions service it       *)
(* drives (DirectionsService.searchStationsInRange and its helpers) and    *)
(* the helpers of utils (calculateDistance, withRetry, validation).        *)
(* Further specifications over the same variables cover the ranking on its *)
(* own (SpecRank, SpecTie), fallbackStationSearch (SpecFallback), two      *)
(* concurrent requests (SpecConcurrent), debounce (SpecDebounce), the      *)
(* useStationSearch hook (SpecHook) and SearchCache (SpecCache).           *)
(*                                                                         *)
(* Numbers: distances are metres (integers, calculateDistance rounds),     *)
(* ratings are hundredths of a star (4.05 is 405).                         *)
(***************************************************************************)
EXTENDS Integers, Sequences, FiniteSets, TLC

(***************************************************************************)
(* Bounds of the model                                                     *)
(***************************************************************************)
\* largest stationCount a request of the model carries (validation.stationCount
\* admits 1..5)
MaxStationCount == 5
\* number of hits of the two large canned restaurant responses
WideLen == 12
\* length of the long response of a radius search
LongLen == 22

(***************************************************************************)
(* Program constants                                                       *)
(***************************************************************************)
MaxAttempts == 3          \* withRetry(..., 3, 1000)
RetryDelay == 1000        \* withRetry(..., 3, 1000), milliseconds
MinRadius == 500          \* validation.radius
MaxRadius == 5000         \* validation.radius
DefaultRadius == 1000     \* searchByText(query, location, radius = 1000)
PlacesMaxResults == 20    \* PLACES_API.MAX_RESULTS
NumDirections == 4        \* north, east, south, west
MaxResults == 20          \* sortedResults.slice(0, 20)
RatingTolerance == 10     \* Math.abs(ratingDiff) > 0.1, in hundredths
DistanceTolerance == 100  \* Math.abs(distanceDiff) > 100

Min(a, b) == IF a < b THEN a ELSE b

\* arr.slice(0, n)
Slice(s, n) == SubSeq(s, 1, Min(Len(s), n))

(***************************************************************************)
(* Coordinates.  The model works on a finite set of named coordinates:     *)
(*   O  = (35.6762, 139.6503)   the request location                       *)
(*   LA = (35.678, 139.6503)    LB = (35.69149, 139.6503)                  *)
(*   LC = (35.670801, 139.6503) LD = (35.678, 139.6613)                    *)
(*   M1 = O + (0.001, 0.001)  M2 = O + (0.01, -0.005)                      *)
(*   M3 = O + (-0.005, 0.008)   the coordinates of the mock stations       *)
(* DistanceTable holds calculateDistance (haversine, R = 6371 km, rounded  *)
(* with Math.round) evaluated on every pair of them.                       *)
(***************************************************************************)
Locations == {"O", "LA", "LB", "LC", "LD", "M1", "M2", "M3"}

DistanceTable ==
    <<"O", "LA">> :> 200 @@ <<"O", "LB">> :> 1700 @@ <<"O", "LC">> :> 600 @@
    <<"O", "LD">> :> 1014 @@ <<"O", "M1">> :> 143 @@ <<"O", "M2">> :> 1200 @@
    <<"O", "M3">> :> 912 @@ <<"LA", "LB">> :> 1500 @@ <<"LA", "LC">> :> 800 @@
    <<"LA", "LD">> :> 994 @@ <<"LA", "M1">> :> 127 @@ <<"LA", "M2">> :> 1018 @@
    <<"LA", "M3">> :> 1046 @@ <<"LB", "LC">> :> 2301 @@ <<"LB", "LD">> :> 1799 @@
    <<"LB", "M1">> :> 1592 @@ <<"LB", "M2">> :> 742 @@ <<"LB", "M3">> :> 2369 @@
    <<"LC", "LD">> :> 1276 @@ <<"LC", "M1">> :> 717 @@ <<"LC", "M2">> :> 1771 @@
    <<"LC", "M3">> :> 724 @@ <<"LD", "M1">> :> 908 @@ <<"LD", "M2">> :> 1709 @@
    <<"LD", "M3">> :> 803 @@ <<"M1", "M2">> :> 1138 @@ <<"M1", "M3">> :> 919 @@
    <<"M2", "M3">> :> 2040

\* calculateDistance(lat1, lng1, lat2, lng2): rounded haversine distance in m
calculateDistance(p, q) ==
    IF p = q THEN 0
    ELSE IF <<p, q>> \in DOMAIN DistanceTable THEN DistanceTable[<<p, q>>]
    ELSE DistanceTable[<<q, p>>]

\* request.location of the modelled request
RequestLocation == "O"

(***************************************************************************)
(* Collaborator responses the model draws from                             *)
(***************************************************************************)
\* Places nearby-search results (place_id, name, geometry.location)
PlaceA == [place_id |-> "P1", name |-> "A", location |-> "LA"]
PlaceB == [place_id |-> "PB", name |-> "B", location |-> "LB"]
PlaceC == [place_id |-> "PC", name |-> "C", location |-> "LC"]
PlaceD == [place_id |-> "PD", name |-> "D", location |-> "LD"]

\* transit stops of Directions routes; place_id "" stands for an absent id
NoStop == [place_id |-> "", name |-> "", location |-> "none"]
StopA  == [place_id |-> "P1", name |-> "A", location |-> "LA"]
StopAn == [place_id |-> "", name |-> "A", location |-> "LA"]
StopB  == [place_id |-> "", name |-> "B", location |-> "LB"]
StopC  == [place_id |-> "PC", name |-> "C", location |-> "LC"]
StopD  == [place_id |-> "", name |-> "D", location |-> "LD"]

TransitStep(dep, arr) ==
    [travel_mode |-> "TRANSIT", departure_stop |-> dep, arrival_stop |-> arr]
WalkStep == [travel_mode |-> "WALKING", departure_stop |-> NoStop,
             arrival_stop |-> NoStop]

\* a route is its sequence of legs, a leg its sequence of steps
RouteB  == << <<WalkStep, TransitStep(StopA, StopB)>> >>
RouteC  == << <<TransitStep(StopA, StopC)>> >>
RouteCD == << <<WalkStep, TransitStep(StopAn, StopC)>>,
              <<TransitStep(StopC, StopD)>> >>
Routes == {RouteB, RouteC, RouteCD}
\* a route between two stops without place_id
RouteBD == << <<TransitStep(StopB, StopD)>> >>

\* what one Directions request can come back with:
\*   "throw"      fetch rejects
\*   "http"       response.ok is false
\*   "status"     data.status is not OK
\*   "no_route"   status OK, data.routes is empty
\*   a route      status OK, data.routes[0]
\*   "malformed"  status OK without a routes array (a TypeError, caught)
ProbeFailures == {"throw", "http", "status", "no_route", "malformed"}
ProbeOutcomes ==
    [kind : ProbeFailures, route : {<<>>}] \cup [kind : {"route"}, route : Routes]

(***************************************************************************)
(* DirectionsService                                                       *)
(***************************************************************************)
NoStation == [placeId |-> "", name |-> "", location |-> "none", distance |-> 0]

\* createStationInfoFromTransitStop: the distance is left at 0
createStationInfoFromTransitStop(transitStop) ==
    [placeId  |-> transitStop.place_id,
     name     |-> transitStop.name,
     location |-> transitStop.location,
     distance |-> 0]

RECURSIVE Flatten(_)
Flatten(legs) ==
    IF legs = <<>> THEN <<>> ELSE Head(legs) \o Flatten(Tail(legs))

\* the two pushes of one step of extractStationsFromRoute
PushStops(stations, step, maxStations) ==
    IF step.travel_mode # "TRANSIT" THEN stations
    ELSE LET afterDep ==
                 IF step.departure_stop # NoStop /\ Len(stations) < maxStations
                 THEN Append(stations,
                        createStationInfoFromTransitStop(step.departure_stop))
                 ELSE stations
         IN  IF step.arrival_stop # NoStop /\ Len(afterDep) < maxStations
             THEN Append(afterDep,
                    createStationInfoFromTransitStop(step.arrival_stop))
             ELSE afterDep

RECURSIVE ExtractFromSteps(_, _, _)
ExtractFromSteps(stations, steps, maxStations) ==
    IF steps = <<>> THEN stations
    ELSE ExtractFromSteps(PushStops(stations, Head(steps), maxStations),
                          Tail(steps), maxStations)

\* extractStationsFromRoute(route, maxStations)
extractStationsFromRoute(route, maxStations) ==
    ExtractFromSteps(<<>>, Flatten(route), maxStations)

\* the key of removeDuplicateStations:
\*   station.placeId || `${name}_${lat}_${lng}`
StationKey(station) ==
    IF station.placeId # "" THEN <<"id", station.placeId, "">>
    ELSE <<"name", station.name, station.location>>

RECURSIVE UniqueStations(_, _)
UniqueStations(stations, seen) ==
    IF stations = <<>> THEN <<>>
    ELSE IF StationKey(Head(stations)) \in seen
         THEN UniqueStations(Tail(stations), seen)
         ELSE <<Head(stations)>> \o
              UniqueStations(Tail(stations),
                             seen \cup {StationKey(Head(stations))})

\* insertion of x into a list sorted by distance, after its equals (stable)
RECURSIVE InsertByDistance(_, _)
InsertByDistance(sorted, x) ==
    IF sorted = <<>> THEN <<x>>
    ELSE IF x.distance - Head(sorted).distance < 0
         THEN <<x>> \o sorted
         ELSE <<Head(sorted)>> \o InsertByDistance(Tail(sorted), x)

RECURSIVE SortByDistance(_)
SortByDistance(stations) ==
    IF stations = <<>> THEN <<>>
    ELSE InsertByDistance(SortByDistance(SubSeq(stations, 1, Len(stations) - 1)),
                          stations[Len(stations)])

\* removeDuplicateStations that only sorts
removeDuplicateStationsKeepAll(stations) == SortByDistance(stations)

\* removeDuplicateStations: first occurrence per key, then sort by distance
removeDuplicateStations(stations) ==
    SortByDistance(UniqueStations(stations, {}))

RECURSIVE CollectStations(_, _)
CollectStations(directions, stationCount) ==
    IF directions = <<>> THEN <<>>
    ELSE extractStationsFromRoute(Head(directions), stationCount) \o
         CollectStations(Tail(directions), stationCount)


\* getStationsInRange whose list does not start from the start station
getStationsInRangeNoStart(startStation, stationCount, directions) ==
    Slice(removeDuplicateStations(CollectStations(directions, stationCount)),
          stationCount + 1)

\* getStationsInRange, the body of its try block once the routes are in
getStationsInRange(startStation, stationCount, directions) ==
    Slice(removeDuplicateStations(
              <<startStation>> \o CollectStations(directions, stationCount)),
          stationCount + 1)

RECURSIVE FallbackPush(_, _, _)
FallbackPush(stations, places, centerStation) ==
    IF places = <<>> THEN stations
    ELSE FallbackPush(
           IF Head(places).place_id # centerStation.placeId
           THEN Append(stations,
                  [placeId  |-> Head(places).place_id,
                   name     |-> Head(places).name,
                   location |-> Head(places).location,
                   distance |-> calculateDistance(centerStation.location,
                                                  Head(places).location)])
           ELSE stations,
           Tail(places), centerStation)

\* fallbackStationSearch, given the nearby-search response:
\* ok is response.ok and data.status = OK with results present
fallbackStationSearch(centerStation, stationCount, ok, places) ==
    IF ~ok THEN <<centerStation>>
    ELSE Slice(FallbackPush(<<centerStation>>, Slice(places, stationCount),
                            centerStation),
               stationCount + 1)

\* getMockStationResponse(request).stationsInRange and .nearestStation
MockNearestStation ==
    [placeId |-> "mock_station_1", name |-> "Shibuya", location |-> "M1",
     distance |-> 200]
MockStations ==
    << MockNearestStation,
       [placeId |-> "mock_station_2", name |-> "Shinjuku", location |-> "M2",
        distance |-> 1500],
       [placeId |-> "mock_station_3", name |-> "Harajuku", location |-> "M3",
        distance |-> 800] >>
getMockStationResponse(stationCount) == Slice(MockStations, stationCount + 1)


(***************************************************************************)
(* Restaurant search: what searchRestaurantsByText hands to the route      *)
(***************************************************************************)
\* names are sequences of characters so that includes() can be computed
NameRamen == <<"R", "a", "m", "e", "n">>
NameCafe  == <<"C", "a", "f", "e">>
NameDiner == <<"D", "i", "n", "e", "r">>
NameWide  == <<"W">>

\* a RestaurantResult; nearestStation "" is the absent field
Hit(id, nm, rt, dist) ==
    [placeId |-> id, name |-> nm, rating |-> rt, distance |-> dist,
     nearestStation |-> ""]

\* getMockPlacesResponse: the three mock results
MockPlaces ==
    << Hit("mock_place_1", NameRamen, 450, 300),
       Hit("mock_place_2", NameCafe, 420, 500),
       Hit("mock_place_3", NameDiner, 400, 800) >>

\* two large responses of a live Places text search that share two venues;
\* each is sorted by distance as processSearchResults leaves it
WideHit(i, first) ==
    Hit("w" \o ToString(i), NameWide,
        IF i % 2 = 1 THEN 400 ELSE 350,
        200 * (((i - first) \div 4) + 1))
WideA == [i \in 1..WideLen |-> WideHit(i, 1)]
WideB == [i \in 1..WideLen |-> WideHit(i + WideLen - 2, WideLen - 1)]

\* what one searchRestaurantsByText call can come back with
SearchOutcomes ==
    [kind : {"throw"}, results : {<<>>}] \cup
    [kind : {"ok"}, results : {MockPlaces, WideA, WideB}]

(***************************************************************************)
(* POST /api/places, station mode                                          *)
(***************************************************************************)
\* the annotation left out
AnnotateResultsLeftOut(stationResults, station) == stationResults

\* stationResults.results.map(result => ({...result, nearestStation: station.name}))
AnnotateResults(stationResults, station) ==
    [i \in 1..Len(stationResults) |->
        [stationResults[i] EXCEPT !.nearestStation = station.name]]

RECURSIVE UniqueResults(_, _)
UniqueResults(list, seen) ==
    IF list = <<>> THEN <<>>
    ELSE IF Head(list).placeId \in seen
         THEN UniqueResults(Tail(list), seen)
         ELSE <<Head(list)>> \o
              UniqueResults(Tail(list), seen \cup {Head(list).placeId})

RECURSIVE Reverse(_)
Reverse(list) ==
    IF list = <<>> THEN <<>> ELSE Append(Reverse(Tail(list)), Head(list))

\* removeDuplicateResults that removes nothing
removeDuplicateResultsKeepAll(list) == list

\* removeDuplicateResults that keeps the last result of every placeId
removeDuplicateResultsLastWins(list) ==
    Reverse(UniqueResults(Reverse(list), {}))

\* removeDuplicateResults: the first result of every placeId, in input order
removeDuplicateResults(list) == UniqueResults(list, {})

\* String.prototype.toLowerCase on the letters the model uses
LowerOf ==
    "R" :> "r" @@ "C" :> "c" @@ "D" :> "d" @@ "W" :> "w"
ToLowerCase(str) ==
    [i \in 1..Len(str) |->
        IF str[i] \in DOMAIN LowerOf THEN LowerOf[str[i]] ELSE str[i]]

\* String.prototype.includes
Includes(str, sub) ==
    \E k \in 0..(Len(str) - Len(sub)) : SubSeq(str, k + 1, k + Len(sub)) = sub

\* the name test without toLowerCase
NameMatchCaseSensitive(hit, query) == Includes(hit.name, query)

\* a.name.toLowerCase().includes(query.toLowerCase())
NameMatch(hit, query) == Includes(ToLowerCase(hit.name), ToLowerCase(query))

\* what the comparator of sortResultsByRelevance reads of a result:
\* (rating || 0), (distance || 0) and whether the name contains the query
RelevanceKey(hit, query) ==
    [rating |-> hit.rating, distance |-> hit.distance,
     nameMatch |-> NameMatch(hit, query)]

\* the comparator without the rating tolerance
CompareKeysExactRating(a, b) ==
    LET ratingDiff   == b.rating - a.rating
        distanceDiff == a.distance - b.distance
    IN  IF ratingDiff # 0 THEN ratingDiff
        ELSE IF distanceDiff > DistanceTolerance
                \/ -distanceDiff > DistanceTolerance
        THEN distanceDiff
        ELSE IF a.nameMatch /\ ~b.nameMatch THEN -1
        ELSE IF ~a.nameMatch /\ b.nameMatch THEN 1
        ELSE 0

\* the comparator with a tie answered as "a first"
CompareKeysTieFirst(a, b) ==
    LET ratingDiff   == b.rating - a.rating
        distanceDiff == a.distance - b.distance
    IN  IF ratingDiff > RatingTolerance \/ -ratingDiff > RatingTolerance
        THEN ratingDiff
        ELSE IF distanceDiff > DistanceTolerance
                \/ -distanceDiff > DistanceTolerance
        THEN distanceDiff
        ELSE IF a.nameMatch /\ ~b.nameMatch THEN -1
        ELSE IF ~a.nameMatch /\ b.nameMatch THEN 1
        ELSE -1

\* the comparator of sortResultsByRelevance on the keys of a and b:
\* negative, zero or positive
CompareKeys(a, b) ==
    LET ratingDiff   == b.rating - a.rating
        distanceDiff == a.distance - b.distance
    IN  IF ratingDiff > RatingTolerance \/ -ratingDiff > RatingTolerance
        THEN ratingDiff
        ELSE IF distanceDiff > DistanceTolerance
                \/ -distanceDiff > DistanceTolerance
        THEN distanceDiff
        ELSE IF a.nameMatch /\ ~b.nameMatch THEN -1
        ELSE IF ~a.nameMatch /\ b.nameMatch THEN 1
        ELSE 0

CompareRelevance(a, b, query) ==
    CompareKeys(RelevanceKey(a, query), RelevanceKey(b, query))

\* whether the comparator is consistent on the list (ECMAScript: a = b and
\* b = c give a = c, a < b and b < c give a < c), decided on the distinct keys
\* of the list; Array.prototype.sort then gives the stable sorted order
ConsistentComparator(list, query) ==
    LET keys == { RelevanceKey(list[i], query) : i \in 1..Len(list) }
    IN  \A x, y \in keys :
          \/ x = y
          \/ \A z \in keys :
                /\ (CompareKeys(x, y) = 0 /\ CompareKeys(y, z) = 0)
                      => CompareKeys(x, z) = 0
                /\ (CompareKeys(x, y) < 0 /\ CompareKeys(y, z) < 0)
                      => CompareKeys(x, z) < 0

\* Array.prototype.sort as Node runs it (V8, TimSort).  An array shorter than
\* 64 is one run: the leading run is counted (a strictly descending one is
\* reversed) and the rest is inserted by binary insertion.  The pipeline never
\* sorts 64 or more results here.
RunContinues(list, k, descending, query) ==
    IF descending THEN CompareRelevance(list[k], list[k - 1], query) < 0
    ELSE CompareRelevance(list[k], list[k - 1], query) >= 0

\* CountAndMakeRun: the array with its leading run ascending, and the run length
CountAndMakeRun(list, query) ==
    LET n == Len(list)
        descending == CompareRelevance(list[2], list[1], query) < 0
        runLength ==
            CHOOSE r \in 2..n :
                /\ \A k \in 3..r : RunContinues(list, k, descending, query)
                /\ r = n \/ ~RunContinues(list, r + 1, descending, query)
    IN  [array  |-> IF descending
                    THEN Reverse(SubSeq(list, 1, runLength))
                            \o SubSeq(list, runLength + 1, n)
                    ELSE list,
         length |-> runLength]

\* the binary search of BinaryInsertionSort: where pivot goes in run[left..right)
RECURSIVE BinarySearch(_, _, _, _, _)
BinarySearch(run, pivot, left, right, query) ==
    IF left >= right THEN left
    ELSE LET mid == left + ((right - left) \div 2)
         IN  IF CompareRelevance(pivot, run[mid + 1], query) < 0
             THEN BinarySearch(run, pivot, left, mid, query)
             ELSE BinarySearch(run, pivot, mid + 1, right, query)

\* BinaryInsertionSort: the first start elements are in order, the others are
\* inserted one by one
RECURSIVE BinaryInsertionSort(_, _, _)
BinaryInsertionSort(array, start, query) ==
    IF start >= Len(array) THEN array
    ELSE LET pivot == array[start + 1]
             left  == BinarySearch(array, pivot, 0, start, query)
         IN  BinaryInsertionSort(
                SubSeq(array, 1, left) \o <<pivot>>
                   \o SubSeq(array, left + 1, start)
                   \o SubSeq(array, start + 2, Len(array)),
                start + 1, query)

ArraySort(list, query) ==
    IF Len(list) < 2 THEN list
    ELSE LET run == CountAndMakeRun(list, query)
         IN  BinaryInsertionSort(run.array, run.length, query)

\* sortResultsByRelevance: [...results].sort(comparator)
sortResultsByRelevance(list, query) == ArraySort(list, query)

\* searchByStations after its loop: removeDuplicateResults,
\* sortResultsByRelevance, slice(0, 20)
AggregateResults(list, query) ==
    Slice(sortResultsByRelevance(removeDuplicateResults(list), query),
          MaxResults)


(***************************************************************************)
(* Errors.  A thrown value is [isError, code, message]: isError tells      *)
(* whether it is an instance of Error, code is its code property ("" when  *)
(* it has none), message names its text (the key of ERROR_MESSAGES, or the *)
(* literal).                                                               *)
(***************************************************************************)
NoError == [isError |-> FALSE, code |-> "none", message |-> ""]

ApiError(code, message) ==
    [isError |-> FALSE, code |-> code, message |-> message]

\* what findNearestStation's nearby search can fail with
LocateFailures ==
    {"network", "http_400", "http_429", "status_REQUEST_DENIED",
     "status_ZERO_RESULTS", "empty"}

\* the value findNearestStation throws: fetch rejects with a TypeError,
\* handleHttpError / handlePlacesApiError / the literal of the empty case
\* give plain ApiError objects
LocateError(failure) ==
    CASE failure = "network"               ->
            [isError |-> TRUE, code |-> "", message |-> "fetch failed"]
      [] failure = "http_400"              ->
            ApiError("INVALID_REQUEST", "SEARCH_FAILED")
      [] failure = "http_429"              ->
            ApiError("RATE_LIMIT_ERROR", "API_ERROR")
      [] failure = "status_REQUEST_DENIED" ->
            ApiError("API_KEY_ERROR", "API_ERROR")
      [] failure = "status_ZERO_RESULTS"   ->
            ApiError("INVALID_REQUEST", "NO_RESULTS")
      [] failure = "empty"                 ->
            ApiError("INVALID_REQUEST", "no station nearby")

\* withRetry's catch: an Error is kept, anything else becomes
\* new Error(String(error.message))
RetryLastError(error) ==
    IF error.isError THEN error
    ELSE [isError |-> TRUE, code |-> "", message |-> error.message]

\* the catch of searchStationsInRange: an Error that has a code is rethrown,
\* anything else goes through handleFetchError(new Error(message))
StationSearchError(error) ==
    IF error.isError /\ error.code # "" THEN error
    ELSE ApiError("UNKNOWN_ERROR", error.message)

\* isRetryableError of utils/errorHandling
isRetryableError(error) ==
    error.code \in {"NETWORK_ERROR", "RATE_LIMIT_ERROR"}

\* withRetry's waitTime after a failed attempt: delay * Math.pow(2, attempt - 1)
BackoffWaitConstant(attempt) == RetryDelay

BackoffWait(attempt) == RetryDelay * (2 ^ (attempt - 1))

(***************************************************************************)
(* State                                                                   *)
(***************************************************************************)
VARIABLES
    pc,                \* where the request is
    body,              \* the body of the POST request
    stationCount,      \* request.stationCount once the body is accepted
    directionsKey,     \* "test_key" or "live": DirectionsService.apiKey
    query,             \* request.query once the body is accepted
    attempt,           \* withRetry's attempt, 0 outside withRetry
    caught,            \* the value withRetry's catch received last
    waits,             \* the sleeps withRetry has made, in milliseconds
    lastError,         \* withRetry's lastError, then the error of the response
    nearestStation,    \* findNearestStation's result
    probeLog,          \* outcome kinds of the Directions requests issued
    directions,        \* getDirectionsFromStation's directions array
    fallbackInvoked,   \* whether fallbackStationSearch was called
    stationsInRange,   \* stationResponse.stationsInRange
    stationIdx,        \* position of searchByStations' loop
    processedStations, \* searchByStations' processedStations
    searchLog,         \* per station: what its restaurant search did
    allResults,        \* searchByStations' allResults
    radiusCalls,       \* searchByRadius' calls of searchRestaurantsByText
    results,           \* the results of the response
    status,            \* "", "OK" or "error": how the request ended
    nearbyResponse,    \* the nearby-search response fallbackStationSearch reads
    directionsServiceInstance, \* the module-level singleton: "null" or its apiKey
    requests,          \* concurrent requests: the locals of each searchByStations
    now,               \* Date.now() and the clock of the timers
    timers,            \* debounce: the pending setTimeout timers
    timeoutId,         \* debounce: the closure's timeoutId, 0 for undefined
    debounceCalls,     \* debounce: the calls of the debounced function
    invocations,       \* debounce: the invocations of the wrapped function
    hookState,         \* useStationSearch: the state of useState
    inFlight,          \* useStationSearch: the fetches awaiting their response
    started,           \* useStationSearch: the searches started, in order
    cacheRef,          \* useStationSearch: cacheRef.current
    nearestStationCacheRef, \* useStationSearch: nearestStationCacheRef.current
    cache,             \* SearchCache: the Map of entries
    cacheOps,          \* SearchCache: the operations applied, in order
    getResult          \* SearchCache: what the last get returned

vars == <<pc, body, stationCount, directionsKey, query, attempt, caught,
          waits, lastError, nearestStation, probeLog, directions,
          fallbackInvoked, stationsInRange, stationIdx, processedStations,
          searchLog, allResults, radiusCalls, results, status,
          nearbyResponse, directionsServiceInstance, requests, now, timers,
          timeoutId, debounceCalls, invocations, hookState, inFlight,
          started, cacheRef, nearestStationCacheRef, cache, cacheOps,
          getResult>>

\* state outside the single POST /api/places request
fallbackVars == <<nearbyResponse>>
concurrentVars == <<directionsServiceInstance, requests>>
clockVars == <<now>>
debounceVars == <<timers, timeoutId, debounceCalls, invocations>>
hookVars == <<hookState, inFlight, started, cacheRef, nearestStationCacheRef>>
cacheVars == <<cache, cacheOps, getResult>>
componentVars ==
    <<fallbackVars, concurrentVars, clockVars, debounceVars, hookVars,
      cacheVars>>

requestVars == <<body, stationCount, directionsKey, query>>
retryVars == <<attempt, caught, waits, lastError>>
radiusVars == <<radiusCalls>>

expansionVars == <<nearestStation, probeLog, directions, fallbackInvoked,
                   stationsInRange>>
fanoutVars == <<stationIdx, processedStations, searchLog, allResults>>

Queries == {<<"r", "a", "m", "e", "n">>}

\* a number of the body: absent, or a value given by its integer part and
\* whether it is an integer (1.5 is JsNumber(1, FALSE))
Absent == [present |-> FALSE, whole |-> 0, isInteger |-> TRUE]
JsNumber(whole, isInteger) ==
    [present |-> TRUE, whole |-> whole, isInteger |-> isInteger]

\* !value of a number of the body: undefined and 0 are falsy
Falsy(value) == ~value.present \/ (value.whole = 0 /\ value.isInteger)

\* value >= k and value <= k for an integer k
AtLeast(value, k) == value.whole >= k
AtMost(value, k) == value.whole < k \/ (value.whole = k /\ value.isInteger)

RawStationCounts ==
    {Absent, JsNumber(0, TRUE), JsNumber(1, FALSE), JsNumber(6, TRUE)}
       \cup {JsNumber(n, TRUE) : n \in 1..MaxStationCount}
RawRadii ==
    {Absent} \cup {JsNumber(r, TRUE) : r \in {0, 499, 500, 1000, 5000, 5001}}

\* the bodies the model posts; their location is the request location
Bodies ==
    [mode : {"station"}, query : Queries \cup {<<>>},
     stationCount : RawStationCounts, radius : {Absent}]
    \cup [mode : {"radius"}, query : Queries \cup {<<>>},
          stationCount : {Absent}, radius : RawRadii]
    \cup [mode : {"walk"}, query : Queries,
          stationCount : {Absent}, radius : {Absent}]

\* no nearby-search response of the fallback
NoResponse == [ok |-> FALSE, places |-> <<>>]

\* everything outside the pipeline at rest
FallbackIdle == nearbyResponse = NoResponse

\* no service instance yet, no concurrent request
ConcurrentIdle ==
    /\ directionsServiceInstance = "null"
    /\ requests = <<>>

ClockAtZero == now = 0

\* a debounced function that was never called
DebounceIdle ==
    /\ timers = {}
    /\ timeoutId = 0
    /\ debounceCalls = <<>>
    /\ invocations = <<>>

\* useStationSearch after its first render
InitialHookState ==
    [nearestStation |-> "null", stationsInRange |-> <<>>, loading |-> FALSE,
     error |-> "null"]

HookIdle ==
    /\ hookState = InitialHookState
    /\ inFlight = {}
    /\ started = <<>>
    /\ cacheRef = <<>>
    /\ nearestStationCacheRef = <<>>

\* new SearchCache()
CacheIdle ==
    /\ cache = <<>>
    /\ cacheOps = <<>>
    /\ getResult = "none"

ComponentsIdle ==
    /\ FallbackIdle
    /\ ConcurrentIdle
    /\ ClockAtZero
    /\ DebounceIdle
    /\ HookIdle
    /\ CacheIdle

Init ==
    /\ ComponentsIdle
    /\ pc = "validate"
    /\ body \in Bodies
    /\ stationCount = 0
    /\ directionsKey \in {"test_key", "live"}
    /\ query = <<>>
    /\ attempt = 0
    /\ caught = NoError
    /\ waits = <<>>
    /\ lastError = NoError
    /\ radiusCalls = <<>>
    /\ nearestStation = NoStation
    /\ probeLog = <<>>
    /\ directions = <<>>
    /\ fallbackInvoked = FALSE
    /\ stationsInRange = <<>>
    /\ stationIdx = 0
    /\ processedStations = {}
    /\ searchLog = <<>>
    /\ allResults = <<>>
    /\ results = <<>>
    /\ status = ""

(***************************************************************************)
(* POST /api/places: validation and the branch on the mode                 *)
(***************************************************************************)
\* validation.radius and validation.stationCount of utils/helpers
validationRadius(radius) ==
    AtLeast(radius, MinRadius) /\ AtMost(radius, MaxRadius)

\* validation.stationCount without its upper limit
validationStationCountNoUpper(count) == AtLeast(count, 1) /\ count.isInteger

validationStationCount(count) ==
    AtLeast(count, 1) /\ AtMost(count, MaxStationCount) /\ count.isInteger

\* validatePlacesRequest without the check of the query
validatePlacesRequestAnyQuery(b) ==
    IF b.mode \notin {"radius", "station"} THEN "mode required"
    ELSE IF b.mode = "radius"
            /\ ~Falsy(b.radius) /\ ~validationRadius(b.radius)
    THEN "radius out of range"
    ELSE IF b.mode = "station"
            /\ (Falsy(b.stationCount)
                  \/ ~validationStationCount(b.stationCount))
    THEN "stationCount out of range"
    ELSE ""

\* validatePlacesRequest: the error it returns, "" for null.  The bodies of
\* the model are objects with a valid location.
validatePlacesRequest(b) ==
    IF b.query = <<>> THEN "query required"
    ELSE IF b.mode \notin {"radius", "station"} THEN "mode required"
    ELSE IF b.mode = "radius"
            /\ ~Falsy(b.radius) /\ ~validationRadius(b.radius)
    THEN "radius out of range"
    ELSE IF b.mode = "station"
            /\ (Falsy(b.stationCount)
                  \/ ~validationStationCount(b.stationCount))
    THEN "stationCount out of range"
    ELSE ""

\* POST: the body fails validation and is answered with status 400
RejectRequest ==
    /\ pc = "validate"
    /\ validatePlacesRequest(body) # ""
    /\ lastError' = ApiError("INVALID_REQUEST", validatePlacesRequest(body))
    /\ status' = "error"
    /\ pc' = "rejected"
    /\ UNCHANGED <<componentVars, requestVars, radiusVars, attempt, caught, waits,
                   expansionVars, fanoutVars, results>>

\* POST: the body passes validation and its mode selects the search
AcceptRequest ==
    /\ pc = "validate"
    /\ validatePlacesRequest(body) = ""
    /\ query' = body.query
    /\ stationCount' = body.stationCount.whole
    /\ pc' = IF body.mode = "radius" THEN "radius" ELSE "request"
    /\ UNCHANGED <<componentVars, body, directionsKey, radiusVars, retryVars, expansionVars,
                   fanoutVars, results, status>>

(***************************************************************************)
(* Radius mode: searchByRadius and PlacesService.searchByText              *)
(***************************************************************************)
\* a place of a Text Search response; location "none" is a place without
\* geometry, rating 0 a place without rating
RawPlace(id, nm, rt, loc) ==
    [place_id |-> id, name |-> nm, rating |-> rt, location |-> loc]

\* a response in the order of the API: the farthest place first, one place
\* without geometry
NearPlaces ==
    << RawPlace("n1", NameCafe, 450, "LB"), RawPlace("n2", NameRamen, 400, "LA"),
       RawPlace("n3", NameDiner, 0, "none"), RawPlace("n4", NameDiner, 380, "LC") >>

\* a response of more than PLACES_API.MAX_RESULTS places
LongCycle == <<"LB", "LA", "LC", "LD", "M1", "M2", "M3">>
LongPlaces ==
    [i \in 1..LongLen |->
        RawPlace("g" \o ToString(i), NameWide, 400,
                 LongCycle[((i - 1) % Len(LongCycle)) + 1])]

\* the ApiError searchByText throws once its withRetry has given up: a
\* TypeError goes through handleFetchError, a converted ApiError becomes
\* UNKNOWN_ERROR with its message
PlacesSearchErrors ==
    {ApiError("NETWORK_ERROR", "NETWORK_ERROR"),
     ApiError("UNKNOWN_ERROR", "API_ERROR")}

\* what one searchRestaurantsByText call of searchByRadius can come back
\* with: an exception, a response of the API, or the mock of the test key
RadiusOutcomes ==
    [kind : {"throw"}, places : {<<>>}, error : PlacesSearchErrors]
    \cup [kind : {"ok"}, places : {<<>>, NearPlaces, LongPlaces},
          error : {NoError}]
    \cup [kind : {"mock"}, places : {<<>>}, error : {NoError}]

\* convertToRestaurantResult
convertToRestaurantResult(place, userLocation) ==
    Hit(place.place_id, place.name, place.rating,
        calculateDistance(userLocation, place.location))

\* the loop of processSearchResults: a place whose conversion throws (it has
\* no geometry) is left out
RECURSIVE ConvertPlaces(_, _)
ConvertPlaces(places, userLocation) ==
    IF places = <<>> THEN <<>>
    ELSE IF Head(places).location = "none"
         THEN ConvertPlaces(Tail(places), userLocation)
         ELSE <<convertToRestaurantResult(Head(places), userLocation)>>
                 \o ConvertPlaces(Tail(places), userLocation)

\* processSearchResults that sorts before it cuts
processSearchResultsSortFirst(places, userLocation) ==
    Slice(SortByDistance(ConvertPlaces(places, userLocation)),
          PlacesMaxResults)

\* processSearchResults: the first MAX_RESULTS places, converted, sorted by
\* distance
processSearchResults(places, userLocation) ==
    SortByDistance(ConvertPlaces(Slice(places, PlacesMaxResults),
                                 userLocation))

\* getMockPlacesResponse: the mock results whose name includes the query, all
\* of them when the query names restaurants or set meals or nothing matches
KeywordRestaurant == <<"r", "e", "s", "t", "a", "u", "r", "a", "n", "t">>
KeywordSetMeal == <<"t", "e", "i", "s", "h", "o", "k", "u">>
getMockPlacesResponse(q) ==
    LET filteredResults ==
            SelectSeq(MockPlaces,
                      LAMBDA result :
                         \/ Includes(result.name, q)
                         \/ Includes(q, KeywordRestaurant)
                         \/ Includes(q, KeywordSetMeal))
    IN  IF Len(filteredResults) > 0 THEN filteredResults ELSE MockPlaces

\* searchByRadius: one searchRestaurantsByText(query, location, radius) whose
\* response is returned as it is; searchByText takes DefaultRadius for an
\* absent radius.  An exception ends the request in handleApiError.
SearchByRadius ==
    /\ pc = "radius"
    /\ \E outcome \in RadiusOutcomes :
         /\ radiusCalls' =
               Append(radiusCalls,
                      [location |-> RequestLocation,
                       radius   |-> IF body.radius.present
                                    THEN body.radius.whole
                                    ELSE DefaultRadius,
                       kind     |-> outcome.kind,
                       places   |-> outcome.places])
         /\ results' =
               CASE outcome.kind = "ok" ->
                       processSearchResults(outcome.places, RequestLocation)
                 [] outcome.kind = "mock" -> getMockPlacesResponse(query)
                 [] outcome.kind = "throw" -> <<>>
         /\ lastError' = outcome.error
         /\ status' = IF outcome.kind = "throw" THEN "error" ELSE "OK"
         /\ pc' = IF outcome.kind = "throw" THEN "radius_failed"
                  ELSE "radius_done"
    /\ UNCHANGED <<componentVars, requestVars, attempt, caught, waits, expansionVars,
                   fanoutVars>>

(***************************************************************************)
(* searchStationsInRange                                                   *)
(***************************************************************************)
\* the test key: getMockStationResponse(request)
SearchStationsMock ==
    /\ pc = "request"
    /\ directionsKey = "test_key"
    /\ nearestStation' = MockNearestStation
    /\ stationsInRange' = getMockStationResponse(stationCount)
    /\ pc' = "stations"
    /\ UNCHANGED <<componentVars, requestVars, radiusVars, retryVars,
                   probeLog, directions, fallbackInvoked, fanoutVars, results,
                   status>>

\* a real key: withRetry starts its first attempt
SearchStationsLive ==
    /\ pc = "request"
    /\ directionsKey = "live"
    /\ attempt' = 1
    /\ pc' = "locate"
    /\ UNCHANGED <<componentVars, requestVars, radiusVars, caught, waits, lastError,
                   expansionVars, fanoutVars, results, status>>

\* findNearestStation: data.results[0] becomes the nearest station
FindNearestStation ==
    /\ pc = "locate"
    /\ \E places \in {<<PlaceA, PlaceC>>} :
         nearestStation' =
            [placeId  |-> places[1].place_id,
             name     |-> places[1].name,
             location |-> places[1].location,
             distance |-> calculateDistance(RequestLocation,
                                            places[1].location)]
    /\ pc' = "probe"
    /\ UNCHANGED <<componentVars, requestVars, radiusVars, retryVars,
                   probeLog, directions, fallbackInvoked, stationsInRange,
                   fanoutVars, results, status>>

\* findNearestStation throws and withRetry has attempts left: the caught
\* value becomes lastError, withRetry sleeps and starts the next attempt
FindNearestStationRetry ==
    /\ pc = "locate"
    /\ attempt < MaxAttempts
    /\ \E failure \in LocateFailures :
         /\ caught' = LocateError(failure)
         /\ lastError' = RetryLastError(LocateError(failure))
    /\ waits' = Append(waits, BackoffWait(attempt))
    /\ attempt' = attempt + 1
    /\ UNCHANGED <<componentVars, pc, requestVars, radiusVars, expansionVars, fanoutVars,
                   results, status>>

\* findNearestStation throws on the last attempt: withRetry throws lastError,
\* searchStationsInRange converts it, searchByStations lets it through and
\* POST answers with handleApiError
FindNearestStationFail ==
    /\ pc = "locate"
    /\ attempt = MaxAttempts
    /\ \E failure \in LocateFailures :
         /\ caught' = LocateError(failure)
         /\ lastError' =
               StationSearchError(RetryLastError(LocateError(failure)))
    /\ status' = "error"
    /\ pc' = "failed"
    /\ UNCHANGED <<componentVars, requestVars, radiusVars, attempt, waits, expansionVars,
                   fanoutVars, results>>


\* getDirectionsFromStation with one try around the whole loop: the first
\* failure drops the routes found so far and ends the loop
GetDirectionsProbeAbort ==
    /\ pc = "probe"
    /\ Len(probeLog) < NumDirections
    /\ \E outcome \in ProbeOutcomes :
         IF outcome.kind = "route"
         THEN /\ probeLog' = Append(probeLog, outcome.kind)
              /\ directions' = Append(directions, outcome.route)
         ELSE /\ probeLog' =
                    [i \in 1..NumDirections |->
                        IF i <= Len(probeLog) THEN probeLog[i]
                        ELSE IF i = Len(probeLog) + 1 THEN outcome.kind
                        ELSE "not_issued"]
              /\ directions' = <<>>
    /\ UNCHANGED <<componentVars, pc, requestVars, radiusVars, retryVars,
                   nearestStation, fallbackInvoked, stationsInRange,
                   fanoutVars, results, status>>

\* getDirectionsFromStation: one request of its loop over the destinations;
\* a failure of any kind is swallowed, a route is pushed
GetDirectionsProbe ==
    /\ pc = "probe"
    /\ Len(probeLog) < NumDirections
    /\ \E outcome \in ProbeOutcomes :
         /\ probeLog' = Append(probeLog, outcome.kind)
         /\ directions' = IF outcome.kind = "route"
                          THEN Append(directions, outcome.route)
                          ELSE directions
    /\ UNCHANGED <<componentVars, pc, requestVars, radiusVars, retryVars,
                   nearestStation, fallbackInvoked, stationsInRange,
                   fanoutVars, results, status>>

\* getStationsInRange after the last probe: extract, deduplicate, sort, slice.
\* Nothing in the try block throws (getDirectionsFromStation and
\* extractStationsFromRoute catch everything), so the catch that calls
\* fallbackStationSearch is never entered.  withRetry returns with it.
GetStationsInRangeReturn ==
    /\ pc = "probe"
    /\ Len(probeLog) = NumDirections
    /\ stationsInRange' =
          getStationsInRange(nearestStation, stationCount, directions)
    /\ attempt' = 0
    /\ caught' = NoError
    /\ waits' = <<>>
    /\ lastError' = NoError
    /\ pc' = "stations"
    /\ UNCHANGED <<componentVars, requestVars, radiusVars, nearestStation, probeLog,
                   directions, fallbackInvoked, fanoutVars, results, status>>

(***************************************************************************)
(* searchByStations                                                        *)
(***************************************************************************)
CurrentStation == stationsInRange[stationIdx]


\* the loop left after its first station
AfterStationEarly == pc' = "aggregate"

AfterStation ==
    pc' = IF stationIdx + 1 > Len(stationsInRange) THEN "aggregate"
          ELSE "fanout"

\* searchStationsInRange has returned: the loop over the stations starts
\* (the locals of the Directions service are gone)
BeginFanout ==
    /\ pc = "stations"
    /\ stationIdx' = 1
    /\ probeLog' = <<>>
    /\ directions' = <<>>
    /\ pc' = "fanout"
    /\ UNCHANGED <<componentVars, requestVars, radiusVars, retryVars, nearestStation,
                   fallbackInvoked, stationsInRange, processedStations,
                   searchLog, allResults, results, status>>

\* if (processedStations.has(station.placeId)) continue
SkipStation ==
    /\ pc = "fanout"
    /\ CurrentStation.placeId \in processedStations
    /\ searchLog' = Append(searchLog, [kind |-> "skipped", results |-> <<>>])
    /\ stationIdx' = stationIdx + 1
    /\ AfterStation
    /\ UNCHANGED <<componentVars, requestVars, radiusVars, retryVars,
                   expansionVars, processedStations, allResults, results,
                   status>>

\* one station's searchRestaurantsByText: its results are annotated and
\* pushed, its exception is caught and logged
SearchStation ==
    /\ pc = "fanout"
    /\ CurrentStation.placeId \notin processedStations
    /\ processedStations' = processedStations \cup {CurrentStation.placeId}
    /\ \E outcome \in SearchOutcomes :
         /\ searchLog' = Append(searchLog, outcome)
         /\ allResults' =
               IF outcome.kind = "ok"
               THEN allResults \o AnnotateResults(outcome.results,
                                                  CurrentStation)
               ELSE allResults
    /\ stationIdx' = stationIdx + 1
    /\ AfterStation
    /\ UNCHANGED <<componentVars, requestVars, radiusVars, retryVars,
                   expansionVars, results, status>>

\* after the loop: removeDuplicateResults, sortResultsByRelevance,
\* slice(0, 20), status OK
Aggregate ==
    /\ pc = "aggregate"
    /\ results' = AggregateResults(allResults, query)
    /\ status' = "OK"
    /\ pc' = "done"
    /\ UNCHANGED <<componentVars, requestVars, radiusVars, retryVars,
                   expansionVars, fanoutVars>>

Next ==
    \/ RejectRequest
    \/ AcceptRequest
    \/ SearchByRadius
    \/ SearchStationsMock
    \/ SearchStationsLive
    \/ FindNearestStation
    \/ FindNearestStationRetry
    \/ FindNearestStationFail
    \/ GetDirectionsProbe
    \/ GetStationsInRangeReturn
    \/ BeginFanout
    \/ SkipStation
    \/ SearchStation
    \/ Aggregate

Spec == Init /\ [][Next]_vars


(***************************************************************************)
(* Properties of the station expansion (the state pc = "stations" is the   *)
(* return of searchStationsInRange)                                        *)
(***************************************************************************)
\* identity of a station: its id, or name and coordinate when it has no id
StationIdentity(station) ==
    IF station.placeId # "" THEN <<station.placeId>>
    ELSE <<station.name, station.location>>

Expanded == pc = "stations"
ExpandedLive == pc = "stations" /\ directionsKey = "live"

\* C1: the list produced by the station expansion begins with the start
\* station (the nearest station), for every stationCount and all responses.
C1_StartStationFirst ==
    Expanded => /\ Len(stationsInRange) >= 1
                /\ stationsInRange[1] = nearestStation

\* C2: the expanded list has between 1 and stationCount + 1 entries and no
\* two of its stations have the same identity.
C2_BoundedAndDistinct ==
    Expanded =>
        /\ Len(stationsInRange) >= 1
        /\ Len(stationsInRange) <= stationCount + 1
        /\ \A i, j \in 1..Len(stationsInRange) :
              i # j => StationIdentity(stationsInRange[i])
                         # StationIdentity(stationsInRange[j])

\* the expansion filled the list to stationCount + 1 although the routes
\* named one station several times
C2_Witness ==
    /\ ExpandedLive
    /\ stationCount >= 2
    /\ Len(stationsInRange) = stationCount + 1
    /\ Len(CollectStations(directions, stationCount)) > stationCount

StationNames(list) == [i \in 1..Len(list) |-> list[i].name]

\* the scenario of C3: start A at 200 m, stationCount 2, one probe finds B
\* (1500 m from A), one finds C (800 m from A), two probes fail
ScenarioABC ==
    /\ ExpandedLive
    /\ stationCount = 2
    /\ nearestStation.name = "A" /\ nearestStation.distance = 200
    /\ Len(directions) = 2
    /\ {directions[1], directions[2]} = {RouteB, RouteC}

\* C3: after the start station the stations are in ascending order of their
\* distance from the start and are the nearest candidates; the scenario
\* yields exactly [A, C, B].
C3_AscendingNearest ==
    Expanded =>
        /\ \A i, j \in 2..Len(stationsInRange) :
              i < j =>
                 calculateDistance(nearestStation.location,
                                   stationsInRange[i].location)
                 <= calculateDistance(nearestStation.location,
                                      stationsInRange[j].location)
        /\ ScenarioABC => StationNames(stationsInRange) = <<"A", "C", "B">>

\* C4: every station returned by the locator or by the expansion carries the
\* computed distance between the reference point (the request location for
\* the nearest station, the request location or the start station for the
\* others) and its coordinate.
C4_DistanceInvariant ==
    ExpandedLive =>
        /\ nearestStation.distance =
              calculateDistance(RequestLocation, nearestStation.location)
        /\ \A i \in 1..Len(stationsInRange) :
              \/ stationsInRange[i].distance =
                    calculateDistance(RequestLocation,
                                      stationsInRange[i].location)
              \/ stationsInRange[i].distance =
                    calculateDistance(nearestStation.location,
                                      stationsInRange[i].location)

\* C5: when the routed expansion yields no candidate (every probe failed or
\* had no route), the radial fallback search was invoked before the
\* expansion returned.
C5_FallbackOnNoCandidates ==
    (ExpandedLive /\ directions = <<>>) => fallbackInvoked

(***************************************************************************)
(* Properties of the station-mode search (pc = "done" is the successful    *)
(* response, pc = "failed" the error response)                             *)
(***************************************************************************)
Searched == 1..Len(searchLog)
OkStations == {i \in Searched : searchLog[i].kind = "ok"}
FailedStations == {i \in Searched : searchLog[i].kind = "throw"}
IdsOf(list) == {list[k].placeId : k \in 1..Len(list)}
CollectedIds == UNION {IdsOf(searchLog[i].results) : i \in OkStations}

\* a result is the hit of a successful station, annotated with its name
ProducedBy(result, i) ==
    /\ i \in OkStations
    /\ \E k \in 1..Len(searchLog[i].results) :
          result = [searchLog[i].results[k] EXCEPT
                       !.nearestStation = stationsInRange[i].name]

\* C6: when some but not all per-station searches throw, the request does
\* not fail and answers with exactly the hits of the successful stations
\* (after deduplication and the cap), each annotated with the name of the
\* station that produced it.
C6_PartialFailureTolerated ==
    /\ (FailedStations # {}) => pc # "failed"
    /\ (pc = "done" /\ FailedStations # {} /\ OkStations # {}) =>
          /\ status = "OK"
          /\ IdsOf(results) \subseteq CollectedIds
          /\ Cardinality(CollectedIds) <= MaxResults
                => IdsOf(results) = CollectedIds
          /\ \A k \in 1..Len(results) :
                \E i \in OkStations : ProducedBy(results[k], i)

\* a finished request of three stations whose middle search threw
C6_Witness ==
    /\ pc = "done"
    /\ Len(searchLog) = 3
    /\ searchLog[1].kind = "ok" /\ searchLog[2].kind = "throw"
    /\ searchLog[3].kind = "ok"
    /\ results # <<>>

\* C7: when every per-station search fails, the request ends in a failure;
\* the caller never gets a successful response with an empty list.
C7_TotalFailureReported ==
    (pc = "done" /\ OkStations = {} /\ FailedStations # {}) =>
        status = "error"

\* C8: the result list has no two hits with the same id and its length is
\* min(20, number of distinct ids collected from the successful stations).
C8_DistinctAndCapped ==
    pc = "done" =>
        /\ \A i, j \in 1..Len(results) :
              i # j => results[i].placeId # results[j].placeId
        /\ Len(results) = Min(MaxResults, Cardinality(CollectedIds))

\* more than 20 distinct hits were collected, some of them twice
C8_Witness ==
    /\ pc = "done"
    /\ Cardinality(CollectedIds) > MaxResults
    /\ Len(allResults) > Cardinality(CollectedIds)
    /\ Len(results) = MaxResults

\* the earliest station of the list whose successful search returned id
FirstProducer(id) ==
    CHOOSE i \in OkStations :
        /\ id \in IdsOf(searchLog[i].results)
        /\ \A j \in OkStations :
              id \in IdsOf(searchLog[j].results) => i <= j

\* C9: of a venue returned by the searches of several stations the kept copy
\* is the one of the earliest station of the list, whose name it carries.
C9_FirstStationWins ==
    pc = "done" =>
        \A k \in 1..Len(results) :
            /\ results[k].placeId \in CollectedIds
            /\ ProducedBy(results[k], FirstProducer(results[k].placeId))

\* a venue returned for two stations of different names is in the result
C9_Witness ==
    /\ pc = "done"
    /\ \E k \in 1..Len(results) : \E i, j \in OkStations :
          /\ i < j
          /\ stationsInRange[i].name # stationsInRange[j].name
          /\ results[k].placeId \in IdsOf(searchLog[i].results)
          /\ results[k].placeId \in IdsOf(searchLog[j].results)
          /\ searchLog[i].results # searchLog[j].results


(***************************************************************************)
(* Ranking on its own: removeDuplicateResults, sortResultsByRelevance and  *)
(* slice applied to bounded lists of annotated hits                        *)
(***************************************************************************)
\* longest list the ranking is applied to
MaxRankLen == 3

RankRatings == {400, 405, 412}
RankDistances == {100, 200, 350}
RankNames == {NameRamen, NameCafe}

\* the list of n hits with the given names, ratings and distances; the k-th
\* hit has the id of position k and carries a station annotation
RankList(n, nm, rt, dist) ==
    [k \in 1..n |->
        [Hit("h" \o ToString(k), nm[k], rt[k], dist[k])
            EXCEPT !.nearestStation = "A"]]

InitRank ==
    /\ ComponentsIdle
    /\ pc = "aggregate"
    /\ \E n \in 0..MaxRankLen :
         \E nm \in [1..n -> RankNames], rt \in [1..n -> RankRatings],
            dist \in [1..n -> RankDistances] :
              allResults = RankList(n, nm, rt, dist)
    /\ query \in Queries
    /\ body = [mode |-> "station", query |-> query,
               stationCount |-> JsNumber(1, TRUE), radius |-> Absent]
    /\ stationCount = 1
    /\ directionsKey = "live"
    /\ attempt = 0
    /\ caught = NoError
    /\ waits = <<>>
    /\ lastError = NoError
    /\ radiusCalls = <<>>
    /\ nearestStation = NoStation
    /\ probeLog = <<>>
    /\ directions = <<>>
    /\ fallbackInvoked = FALSE
    /\ stationsInRange = <<>>
    /\ stationIdx = 1
    /\ processedStations = {}
    /\ searchLog = <<>>
    /\ results = <<>>
    /\ status = ""

NextRank == Aggregate

SpecRank == InitRank /\ [][NextRank]_vars

Abs(n) == IF n < 0 THEN -n ELSE n

\* x is to precede y by the rules as C10 words them
RanksBeforeAsClaimed(x, y) ==
    \/ x.rating - y.rating >= RatingTolerance
    \/ /\ Abs(x.rating - y.rating) < RatingTolerance
       /\ y.distance - x.distance >= DistanceTolerance

\* x is to precede y by the rules with strict thresholds
RanksBefore(x, y) ==
    \/ x.rating - y.rating > RatingTolerance
    \/ /\ Abs(x.rating - y.rating) <= RatingTolerance
       /\ y.distance - x.distance > DistanceTolerance

C11_AggregateIdempotent ==
    pc = "done" => AggregateResults(results, query) = results

\* a finished aggregation that re-ordered three hits whose tolerance ties are
\* not transitive
C11_Witness ==
    /\ pc = "done"
    /\ Len(results) = 3
    /\ results # allResults
    /\ ~ConsistentComparator(allResults, query)

(***************************************************************************)
(* The name rule of the ranking: Aggregate on lists of hits that tie, for  *)
(* a query of one tag and a query of two tags.  The client sends the       *)
(* searchQuery of the mood conversion, its tags joined by " OR ".          *)
(***************************************************************************)
\* longest list of the name-rule runs
MaxTieLen == 3

TagSeparator == " OR "
TieQueries ==
    {<<"r", "a", "m", "e", "n">>,
     <<"r", "a", "m", "e", "n", TagSeparator, "u", "d", "o", "n">>}
TieRatings == {400, 408, 416}
TieDistances == {100, 150}

InitTie ==
    /\ ComponentsIdle
    /\ pc = "aggregate"
    /\ \E n \in 0..MaxTieLen :
         \E nm \in [1..n -> RankNames], rt \in [1..n -> TieRatings],
            dist \in [1..n -> TieDistances] :
              allResults = RankList(n, nm, rt, dist)
    /\ query \in TieQueries
    /\ body = [mode |-> "station", query |-> query,
               stationCount |-> JsNumber(1, TRUE), radius |-> Absent]
    /\ stationCount = 1
    /\ directionsKey = "live"
    /\ attempt = 0
    /\ caught = NoError
    /\ waits = <<>>
    /\ lastError = NoError
    /\ radiusCalls = <<>>
    /\ nearestStation = NoStation
    /\ probeLog = <<>>
    /\ directions = <<>>
    /\ fallbackInvoked = FALSE
    /\ stationsInRange = <<>>
    /\ stationIdx = 1
    /\ processedStations = {}
    /\ searchLog = <<>>
    /\ results = <<>>
    /\ status = ""

SpecTie == InitTie /\ [][NextRank]_vars

\* the tags of a query: its parts between the separators
RECURSIVE QueryTagsFrom(_, _)
QueryTagsFrom(q, tag) ==
    IF q = <<>> THEN {tag}
    ELSE IF Head(q) = TagSeparator
         THEN {tag} \cup QueryTagsFrom(Tail(q), <<>>)
         ELSE QueryTagsFrom(Tail(q), Append(tag, Head(q)))
QueryTags(q) == QueryTagsFrom(q, <<>>) \ {<<>>}

\* the name of a hit contains str, letter case ignored
NameContains(hit, str) == Includes(ToLowerCase(hit.name), ToLowerCase(str))

\* the name of a hit contains at least one tag of the query
TagMatch(hit, q) == \E tag \in QueryTags(q) : NameContains(hit, tag)

\* x and y tie as C12 words it, and as the comparator decides it
TieAsClaimed(x, y) ==
    /\ Abs(x.rating - y.rating) < RatingTolerance
    /\ Abs(x.distance - y.distance) < DistanceTolerance
TieWithinTolerance(x, y) ==
    /\ Abs(x.rating - y.rating) <= RatingTolerance
    /\ Abs(x.distance - y.distance) <= DistanceTolerance

RadiusAnswered ==
    /\ pc = "radius_done"
    /\ Len(radiusCalls) >= 1
    /\ radiusCalls[1].kind = "ok"

RadiusResponse == radiusCalls[1].places

\* the ids of a list of places, each kept at its first occurrence
RECURSIVE DistinctPlaceIds(_, _)
DistinctPlaceIds(places, seen) ==
    IF places = <<>> THEN <<>>
    ELSE IF Head(places).place_id \in seen
         THEN DistinctPlaceIds(Tail(places), seen)
         ELSE <<Head(places).place_id>>
                 \o DistinctPlaceIds(Tail(places),
                                     seen \cup {Head(places).place_id})

ResultIds == [i \in 1..Len(results) |-> results[i].placeId]

\* C13 as stated: a radius-mode search makes a single restaurant-search call
\* around the request origin and returns the hits of that call, deduplicated
\* by id and truncated to 20, in the order the collaborator returned them.
C13_RadiusOrderAsClaimed ==
    RadiusAnswered =>
        /\ Len(radiusCalls) = 1
        /\ radiusCalls[1].location = RequestLocation
        /\ ResultIds = Slice(DistinctPlaceIds(RadiusResponse, {}), MaxResults)

\* the places of the response the answer is built from: the first 20 that
\* have a geometry
UsablePlaces ==
    {k \in 1..Min(Len(RadiusResponse), PlacesMaxResults) :
        RadiusResponse[k].location # "none"}

PlaceOfResult(i) ==
    CHOOSE k \in 1..Len(RadiusResponse) :
        RadiusResponse[k].place_id = results[i].placeId

\* C13 amended: a radius-mode search with a live Places key makes a single
\* restaurant-search call around the request origin and returns exactly the
\* places with a geometry among the first 20 of the response, each with its
\* distance from the origin, sorted by ascending distance (places at equal
\* distance in the order of the response).
C13_RadiusSortedByDistance ==
    RadiusAnswered =>
        /\ Len(radiusCalls) = 1
        /\ radiusCalls[1].location = RequestLocation
        /\ Len(results) = Cardinality(UsablePlaces)
        /\ \A k \in UsablePlaces :
              \E i \in 1..Len(results) :
                 /\ results[i].placeId = RadiusResponse[k].place_id
                 /\ results[i].name = RadiusResponse[k].name
                 /\ results[i].rating = RadiusResponse[k].rating
                 /\ results[i].distance =
                       calculateDistance(RequestLocation,
                                         RadiusResponse[k].location)
        /\ \A i, j \in 1..Len(results) :
              i < j =>
                 \/ results[i].distance < results[j].distance
                 \/ /\ results[i].distance = results[j].distance
                    /\ PlaceOfResult(i) < PlaceOfResult(j)

\* a response of more than 20 places was answered in another order than the
\* one of the response
C13_Witness ==
    /\ RadiusAnswered
    /\ Len(RadiusResponse) > PlacesMaxResults
    /\ Len(results) = PlacesMaxResults
    /\ ResultIds # Slice(DistinctPlaceIds(RadiusResponse, {}), MaxResults)

(***************************************************************************)
(* Properties of withRetry as searchStationsInRange runs it (pc = "locate" *)
(* is an attempt under way, pc = "probe" an attempt that has got its       *)
(* nearest station, pc = "failed" the failure reported)                    *)
(***************************************************************************)
InRetry == pc \in {"locate", "probe"}

\* the waits before the attempt of the given number
BackoffBefore(n) == [k \in 1..(n - 1) |-> RetryDelay * (2 ^ (k - 1))]

\* C14 as stated: at most 3 attempts, and between attempts the wrapper waits
\* 1 s, 2 s and 4 s, so that a failure is reported after these three waits.
C14_BackoffAsClaimed ==
    /\ InRetry => attempt \in 1..MaxAttempts
    /\ pc = "failed" => waits = BackoffBefore(MaxAttempts + 1)

\* C14 amended: the wrapper makes at most 3 attempts, waits 1 s after the
\* first failed attempt and 2 s after the second (no wait follows the third),
\* reports failure only after the third attempt failed, and once an attempt
\* has succeeded makes no further attempt and keeps the value it returned.
C14_RetryPolicy ==
    /\ [](/\ InRetry => /\ attempt \in 1..MaxAttempts
                        /\ waits = BackoffBefore(attempt)
          /\ pc = "failed" => /\ attempt = MaxAttempts
                             /\ waits = BackoffBefore(MaxAttempts))
    /\ [][pc = "probe" => /\ pc' # "locate"
                          /\ attempt' \in {attempt, 0}
                          /\ nearestStation' = nearestStation]_vars

\* the third attempt succeeded after waits of 1 s and 2 s
C14_Witness ==
    /\ pc = "probe"
    /\ attempt = MaxAttempts
    /\ waits = <<RetryDelay, 2 * RetryDelay>>
    /\ nearestStation # NoStation

\* a caught failure is transient: a network error (the TypeError of fetch) or
\* a rate-limit error; it is non-transient: a bad request or an
\* authentication error
Transient(error) ==
    \/ error.isError /\ error.code = ""
    \/ isRetryableError(error)
NonTransient(error) == error.code \in {"INVALID_REQUEST", "API_KEY_ERROR"}

\* C15: a wrapped call that fails with a non-transient failure (bad request,
\* authentication) is attempted exactly once and its failure is reported at
\* once; a further attempt follows only a network or rate-limit error.
C15_NonTransientNotRetried ==
    /\ (InRetry /\ attempt > 1) => Transient(caught)
    /\ (pc = "failed" /\ NonTransient(caught)) => attempt = 1

\* what withRetry caught last came from a nearby search without results, or
\* from a nearby search that failed
ZeroResults(error) ==
    error \in {LocateError("status_ZERO_RESULTS"), LocateError("empty")}
UpstreamFailure(error) ==
    error \in {LocateError("network"), LocateError("http_429"),
               LocateError("status_REQUEST_DENIED")}

\* C16: when the station search for the origin has no result, the request
\* ends with the error kind of "no station found" (code INVALID_REQUEST, as
\* findNearestStation throws it), a failed station search ends with another
\* kind, and neither issues a Directions request or a restaurant search.
C16_NoStationFoundDistinct ==
    pc = "failed" =>
        /\ probeLog = <<>>
        /\ searchLog = <<>>
        /\ ZeroResults(caught) => lastError.code = "INVALID_REQUEST"
        /\ UpstreamFailure(caught) => lastError.code # "INVALID_REQUEST"

(***************************************************************************)
(* Properties of the validation of POST /api/places (pc = "rejected" is    *)
(* the answer with status 400 of a body that failed validation)            *)
(***************************************************************************)
\* no station search, Directions request or restaurant search has been made
NoCollaboratorCalled ==
    /\ attempt = 0
    /\ nearestStation = NoStation
    /\ probeLog = <<>>
    /\ stationsInRange = <<>>
    /\ searchLog = <<>>
    /\ radiusCalls = <<>>

RejectedAsInvalid ==
    /\ pc = "rejected"
    /\ status = "error"
    /\ lastError.code = "INVALID_REQUEST"
    /\ NoCollaboratorCalled

\* the number is an integer in 1..5; the number lies in 500..5000
IntegerInStationRange(value) ==
    value.present /\ value.isInteger /\ value.whole \in 1..MaxStationCount
InRadiusRange(value) ==
    /\ value.present
    /\ value.whole >= MinRadius
    /\ value.whole < MaxRadius \/ (value.whole = MaxRadius /\ value.isInteger)

\* C17: a station-mode request whose stationCount is not an integer in 1..5
\* is rejected as invalid before any collaborator is called; one whose
\* stationCount is an integer in 1..5 passes validation.
C17_StationCountValidated ==
    (body.mode = "station" /\ body.query # <<>> /\ pc # "validate") =>
        IF IntegerInStationRange(body.stationCount)
        THEN pc # "rejected"
        ELSE RejectedAsInvalid

\* a request for 1.5 stations was rejected
C17_Witness ==
    /\ pc = "rejected"
    /\ body.mode = "station"
    /\ body.query # <<>>
    /\ body.stationCount = JsNumber(1, FALSE)

\* C18: a radius-mode request whose radius lies outside 500..5000 (0
\* included) is rejected as invalid before the restaurant search is called,
\* and the radius handed to the restaurant search is the one of the request.
C18_RadiusValidated ==
    (body.mode = "radius" /\ body.query # <<>> /\ body.radius.present
        /\ pc # "validate") =>
        /\ ~InRadiusRange(body.radius) => RejectedAsInvalid
        /\ \A k \in 1..Len(radiusCalls) :
              radiusCalls[k].radius = body.radius.whole

\* the body is valid but for its query
ValidButForQuery ==
    \/ body.mode = "station" /\ IntegerInStationRange(body.stationCount)
    \/ body.mode = "radius" /\ InRadiusRange(body.radius)

C20_OneSearchPerIdentity ==
    pc \in {"fanout", "aggregate", "done"} =>
        /\ Len(searchLog) <= Len(stationsInRange)
        /\ pc = "done" => Len(searchLog) = Len(stationsInRange)
        /\ \A i \in 1..Len(searchLog) :
              searchLog[i].kind = "skipped" =>
                 \E j \in 1..(i - 1) :
                    StationIdentity(stationsInRange[j])
                       = StationIdentity(stationsInRange[i])


(***************************************************************************)
(* Failures inside the expansion                                           *)
(***************************************************************************)
\* the keys of the stations of a list
KeysOf(stations) == {StationKey(stations[i]) : i \in 1..Len(stations)}

\* the stations found on the routes of the probes that succeeded
FoundOnRoutes == KeysOf(CollectStations(directions, stationCount))

RoutesFound == Cardinality({i \in 1..Len(probeLog) : probeLog[i] = "route"})

\* C21: a failed routing probe (exception, non-OK HTTP response, non-OK
\* status) does not abort the expansion: every route found so far is kept,
\* all four probes are issued, and the expansion result is filled from the
\* stations of the routes that were found.
C21_ProbeFailureIsolated ==
    /\ (pc = "probe" /\ directionsKey = "live") =>
          /\ Len(directions) = RoutesFound
          /\ \A i \in 1..Len(probeLog) :
                probeLog[i] \in ProbeFailures \cup {"route"}
    /\ ExpandedLive =>
          /\ Len(probeLog) = NumDirections
          /\ \A i \in 1..NumDirections :
                probeLog[i] \in ProbeFailures \cup {"route"}
          /\ Len(directions) = RoutesFound
          /\ KeysOf(stationsInRange)
                \subseteq FoundOnRoutes \cup {StationKey(nearestStation)}
          /\ Len(stationsInRange) =
                Min(stationCount + 1,
                    Cardinality(FoundOnRoutes
                                   \cup {StationKey(nearestStation)}))

\* three probes fail, each in its own way, before the fourth finds a route
\* whose stations are in the result
C21_Witness ==
    /\ ExpandedLive
    /\ probeLog = <<"throw", "http", "status", "route">>
    /\ FoundOnRoutes \cap KeysOf(stationsInRange) # {}
    /\ \E i \in 1..Len(stationsInRange) :
          StationKey(stationsInRange[i]) # StationKey(nearestStation)


\* the nearby-search entry of a station
PlaceOfStation(station) ==
    [place_id |-> station.placeId, name |-> station.name,
     location |-> station.location]

\* the nearby-search responses that hold no station other than the centre
NoFurtherStation(centerStation) ==
    {<<>>, <<PlaceOfStation(centerStation)>>}

\* C22: when the routes yield no station and the nearby search of the
\* fallback yields none either, the expansion result is exactly [start]; the
\* expansion never returns an empty list, and once the nearest station is
\* located the request does not fail for lack of candidates.
C22_StartAloneWhenNothingFound ==
    /\ (ExpandedLive /\ CollectStations(directions, stationCount) = <<>>) =>
          /\ stationsInRange = <<nearestStation>>
          /\ \A ok \in BOOLEAN :
               \A places \in NoFurtherStation(nearestStation) :
                  fallbackStationSearch(nearestStation, stationCount, ok,
                                        places) = <<nearestStation>>
    /\ Expanded => Len(stationsInRange) >= 1
    /\ pc = "failed" => nearestStation = NoStation /\ probeLog = <<>>

\* all four probes failed and the expansion returned the start station alone
C22_Witness ==
    /\ ExpandedLive
    /\ \A i \in 1..NumDirections : probeLog[i] \in ProbeFailures
    /\ directions = <<>>
    /\ stationsInRange = <<nearestStation>>


(***************************************************************************)
(* The radial fallback on its own: fallbackStationSearch applied to        *)
(* bounded nearby-search responses                                         *)
(***************************************************************************)
\* largest stationCount the fallback is applied with
MaxFallbackCount == 3

NearbyPlaces == {PlaceA, PlaceB, PlaceC, PlaceD}

\* nearby-search result lists: every order of every subset of the places
NearbyResults ==
    {places \in UNION {[1..n -> NearbyPlaces] :
                          n \in 0..Cardinality(NearbyPlaces)} :
        \A i, j \in 1..Len(places) : i # j => places[i] # places[j]}

InitFallback ==
    /\ ConcurrentIdle /\ ClockAtZero /\ DebounceIdle /\ HookIdle /\ CacheIdle
    /\ pc = "fallback"
    /\ nearbyResponse \in [ok : BOOLEAN, places : NearbyResults]
    /\ stationCount \in 1..MaxFallbackCount
    /\ nearestStation =
          [placeId |-> PlaceA.place_id, name |-> PlaceA.name,
           location |-> PlaceA.location,
           distance |-> calculateDistance(RequestLocation, PlaceA.location)]
    /\ query \in Queries
    /\ body = [mode |-> "station", query |-> query,
               stationCount |-> JsNumber(stationCount, TRUE),
               radius |-> Absent]
    /\ directionsKey = "live"
    /\ attempt = 1
    /\ caught = NoError
    /\ waits = <<>>
    /\ lastError = NoError
    /\ radiusCalls = <<>>
    /\ probeLog = <<>>
    /\ directions = <<>>
    /\ fallbackInvoked = FALSE
    /\ stationsInRange = <<>>
    /\ stationIdx = 0
    /\ processedStations = {}
    /\ searchLog = <<>>
    /\ allResults = <<>>
    /\ results = <<>>
    /\ status = ""

\* fallbackStationSearch(startStation, stationCount) returns to the caller
FallbackStationSearch ==
    /\ pc = "fallback"
    /\ fallbackInvoked' = TRUE
    /\ stationsInRange' =
          fallbackStationSearch(nearestStation, stationCount,
                                nearbyResponse.ok, nearbyResponse.places)
    /\ pc' = "stations"
    /\ UNCHANGED <<componentVars, requestVars, radiusVars, retryVars,
                   nearestStation, probeLog, directions,
                   fanoutVars, results, status>>

NextFallback == FallbackStationSearch

SpecFallback == InitFallback /\ [][NextFallback]_vars

\* the places of the response that are not the start station
OtherPlaces ==
    {i \in 1..Len(nearbyResponse.places) :
        StationIdentity(
           [placeId |-> nearbyResponse.places[i].place_id,
            name |-> nearbyResponse.places[i].name,
            location |-> nearbyResponse.places[i].location])
          # StationIdentity(nearestStation)}

\* the response holds the start station and at least stationCount others
StartAndEnoughOthers ==
    /\ nearbyResponse.ok
    /\ \E i \in 1..Len(nearbyResponse.places) : i \notin OtherPlaces
    /\ Cardinality(OtherPlaces) >= stationCount

DirectionOf(i) == i

\* C24: a routing probe that fails with a transient failure (a network
\* error) is attempted again for the same direction, up to MaxAttempts
\* attempts, before the direction counts as contributing no candidates.
C24_ProbeRetried ==
    ExpandedLive =>
        \A i \in 1..Len(probeLog) :
           probeLog[i] = "throw" =>
              \/ \E j \in (i + 1)..Len(probeLog) :
                    DirectionOf(j) = DirectionOf(i)
              \/ Cardinality({j \in 1..i : DirectionOf(j) = DirectionOf(i)})
                    = MaxAttempts


(***************************************************************************)
(* Order of the stages of a station-mode request                           *)
(***************************************************************************)
StationMode == body.mode = "station"

\* C25: the stages of a station-mode request occur in the order locate,
\* expand, fan-out, aggregate: a routing or fallback call is issued only
\* after the nearest station was located, a per-station restaurant search
\* only after the expansion returned its list, and the response is produced
\* only after every station of the list was dealt with.
C25_StageOrder ==
    StationMode =>
        /\ pc = "locate" =>
              /\ nearestStation = NoStation
              /\ probeLog = <<>> /\ ~fallbackInvoked
              /\ stationsInRange = <<>> /\ searchLog = <<>>
        /\ (pc = "probe" \/ probeLog # <<>> \/ fallbackInvoked) =>
              /\ nearestStation # NoStation
              /\ searchLog = <<>>
              /\ status = ""
        /\ pc = "probe" => stationsInRange = <<>>
        /\ (pc = "fanout" \/ searchLog # <<>>) =>
              /\ pc \in {"fanout", "aggregate", "done"}
              /\ nearestStation # NoStation
              /\ stationsInRange # <<>>
              /\ probeLog = <<>>
              /\ Len(searchLog) <= Len(stationsInRange)
              /\ Len(searchLog) = stationIdx - 1
        /\ pc = "fanout" => status = "" /\ results = <<>>
        /\ (status = "OK" \/ results # <<>>) =>
              /\ pc = "done"
              /\ Len(searchLog) = Len(stationsInRange)

\* a live request answered after three stations were dealt with, one search
\* failing and one succeeding
C25_Witness ==
    /\ StationMode /\ directionsKey = "live"
    /\ pc = "done" /\ status = "OK"
    /\ Len(stationsInRange) = 3
    /\ Len(searchLog) = 3
    /\ \E i, j \in 1..3 : searchLog[i].kind = "throw" /\ searchLog[j].kind = "ok"


(***************************************************************************)
(* Two station-mode requests served concurrently by one process.  Each     *)
(* request runs searchByStations with its own locals; the module-level     *)
(* directionsServiceInstance is what they share.                           *)
(***************************************************************************)
\* largest stationCount of a concurrent request
MaxConcurrentCount == 2

RequestIds == {1, 2}

\* no single request in progress
PipelineIdle ==
    /\ pc = "idle"
    /\ body = [mode |-> "none", query |-> <<>>, stationCount |-> Absent,
               radius |-> Absent]
    /\ stationCount = 0
    /\ directionsKey = "live"
    /\ query = <<>>
    /\ attempt = 0
    /\ caught = NoError
    /\ waits = <<>>
    /\ lastError = NoError
    /\ radiusCalls = <<>>
    /\ nearestStation = NoStation
    /\ probeLog = <<>>
    /\ directions = <<>>
    /\ fallbackInvoked = FALSE
    /\ stationsInRange = <<>>
    /\ stationIdx = 0
    /\ processedStations = {}
    /\ searchLog = <<>>
    /\ allResults = <<>>
    /\ results = <<>>
    /\ status = ""

pipelineVars ==
    <<pc, requestVars, retryVars, radiusVars, expansionVars, fanoutVars,
      results, status>>

\* the locals of one request before its first step; apiKey is the key of the
\* DirectionsService the request obtained, probes and searches are the
\* collaborator responses it has received
NewRequest(count) ==
    [pc |-> "request", stationCount |-> count, query |-> NameRamen,
     apiKey |-> "", nearestStation |-> NoStation, probes |-> <<>>,
     stationsInRange |-> <<>>, stationIdx |-> 0, processedStations |-> {},
     searches |-> <<>>, allResults |-> <<>>, results |-> <<>>,
     status |-> ""]

\* what the Directions requests and the restaurant searches of a concurrent
\* request can come back with
ConcurrentProbeOutcomes ==
    {[kind |-> "throw", route |-> <<>>], [kind |-> "route", route |-> RouteBD]}
ConcurrentSearchOutcomes ==
    {[kind |-> "throw", results |-> <<>>],
     [kind |-> "ok", results |-> MockPlaces]}

InitConcurrent ==
    /\ PipelineIdle
    /\ FallbackIdle /\ ClockAtZero /\ DebounceIdle /\ HookIdle /\ CacheIdle
    /\ directionsServiceInstance = "null"
    /\ \E counts \in [RequestIds -> 1..MaxConcurrentCount] :
          \* the requests are interchangeable: the smaller count comes first
          /\ counts[1] <= counts[2]
          /\ requests = [r \in RequestIds |-> NewRequest(counts[r])]

\* process.env.GOOGLE_DIRECTIONS_API_KEY of the serving process
EnvDirectionsKeys == {"test_key", "live"}

\* getDirectionsService(): the instance is created on the first call
\* searchStationsInRange with the test key answers with the mock stations
ConcurrentGetService(r) ==
    /\ requests[r].pc = "request"
    /\ \E key \in EnvDirectionsKeys :
         /\ directionsServiceInstance' =
               IF directionsServiceInstance = "null" THEN key
               ELSE directionsServiceInstance
         /\ requests' =
               [requests EXCEPT ![r] =
                  IF directionsServiceInstance' = "test_key"
                  THEN [@ EXCEPT !.apiKey = directionsServiceInstance',
                                 !.nearestStation = MockNearestStation,
                                 !.stationsInRange =
                                    getMockStationResponse(requests[r].stationCount),
                                 !.stationIdx = 1,
                                 !.pc = "fanout"]
                  ELSE [@ EXCEPT !.apiKey = directionsServiceInstance',
                                 !.pc = "locate"]]
    /\ UNCHANGED <<pipelineVars, fallbackVars, clockVars, debounceVars,
                   hookVars, cacheVars>>

\* findNearestStation of request r returns
ConcurrentLocate(r) ==
    /\ requests[r].pc = "locate"
    /\ requests' =
          [requests EXCEPT ![r] =
             [@ EXCEPT !.nearestStation =
                          [placeId  |-> PlaceA.place_id,
                           name     |-> PlaceA.name,
                           location |-> PlaceA.location,
                           distance |-> calculateDistance(RequestLocation,
                                                         PlaceA.location)],
                       !.pc = "probe"]]
    /\ UNCHANGED <<pipelineVars, fallbackVars, directionsServiceInstance,
                   clockVars, debounceVars, hookVars, cacheVars>>

\* one Directions request of request r
ConcurrentProbe(r) ==
    /\ requests[r].pc = "probe"
    /\ Len(requests[r].probes) < NumDirections
    /\ \E outcome \in ConcurrentProbeOutcomes :
         requests' =
            [requests EXCEPT ![r].probes = Append(@, outcome)]
    /\ UNCHANGED <<pipelineVars, fallbackVars, directionsServiceInstance,
                   clockVars, debounceVars, hookVars, cacheVars>>

\* the routes among the responses to the Directions requests
RECURSIVE RoutesOf(_)
RoutesOf(probes) ==
    IF probes = <<>> THEN <<>>
    ELSE (IF Head(probes).kind = "route" THEN <<Head(probes).route>>
          ELSE <<>>) \o RoutesOf(Tail(probes))

\* getStationsInRange of request r returns, searchByStations starts its loop
ConcurrentExpand(r) ==
    /\ requests[r].pc = "probe"
    /\ Len(requests[r].probes) = NumDirections
    /\ requests' =
          [requests EXCEPT ![r] =
             [@ EXCEPT !.stationsInRange =
                          getStationsInRange(requests[r].nearestStation, requests[r].stationCount,
                                             RoutesOf(requests[r].probes)),
                       !.stationIdx = 1,
                       !.pc = "fanout"]]
    /\ UNCHANGED <<pipelineVars, fallbackVars, directionsServiceInstance,
                   clockVars, debounceVars, hookVars, cacheVars>>

ConcurrentStation(r) == requests[r].stationsInRange[requests[r].stationIdx]

ConcurrentAfterStation(req) ==
    IF req.stationIdx + 1 > Len(req.stationsInRange) THEN "aggregate"
    ELSE "fanout"

\* if (processedStations.has(station.placeId)) continue
ConcurrentSkipStation(r) ==
    /\ requests[r].pc = "fanout"
    /\ ConcurrentStation(r).placeId \in requests[r].processedStations
    /\ requests' =
          [requests EXCEPT ![r] =
             [@ EXCEPT !.stationIdx = @ + 1,
                       !.pc = ConcurrentAfterStation(requests[r])]]
    /\ UNCHANGED <<pipelineVars, fallbackVars, directionsServiceInstance,
                   clockVars, debounceVars, hookVars, cacheVars>>

\* the loop with one processedStations set for the whole process
ConcurrentSearchStationShared(r) ==
    /\ requests[r].pc = "fanout"
    /\ ConcurrentStation(r).placeId \notin requests[r].processedStations
    /\ \E outcome \in ConcurrentSearchOutcomes :
         requests' =
            [requests EXCEPT ![r] =
               IF \E other \in RequestIds \ {r} :
                     ConcurrentStation(r).placeId
                        \in requests[other].processedStations
               THEN [@ EXCEPT !.stationIdx = @ + 1,
                              !.pc = ConcurrentAfterStation(requests[r])]
               ELSE [@ EXCEPT
                       !.processedStations =
                          @ \cup {ConcurrentStation(r).placeId},
                       !.searches = Append(@, outcome),
                       !.allResults =
                          IF outcome.kind = "ok"
                          THEN @ \o AnnotateResults(outcome.results,
                                                    ConcurrentStation(r))
                          ELSE @,
                       !.stationIdx = @ + 1,
                       !.pc = ConcurrentAfterStation(requests[r])]]
    /\ UNCHANGED <<pipelineVars, fallbackVars, directionsServiceInstance,
                   clockVars, debounceVars, hookVars, cacheVars>>

\* one station's searchRestaurantsByText of request r
ConcurrentSearchStation(r) ==
    /\ requests[r].pc = "fanout"
    /\ ConcurrentStation(r).placeId \notin requests[r].processedStations
    /\ \E outcome \in ConcurrentSearchOutcomes :
         requests' =
            [requests EXCEPT ![r] =
               [@ EXCEPT
                  !.processedStations = @ \cup {ConcurrentStation(r).placeId},
                  !.searches = Append(@, outcome),
                  !.allResults =
                     IF outcome.kind = "ok"
                     THEN @ \o AnnotateResults(outcome.results,
                                               ConcurrentStation(r))
                     ELSE @,
                  !.stationIdx = @ + 1,
                  !.pc = ConcurrentAfterStation(requests[r])]]
    /\ UNCHANGED <<pipelineVars, fallbackVars, directionsServiceInstance,
                   clockVars, debounceVars, hookVars, cacheVars>>

\* removeDuplicateResults, sortResultsByRelevance, slice, status OK
ConcurrentAggregate(r) ==
    /\ requests[r].pc = "aggregate"
    /\ requests' =
          [requests EXCEPT ![r] =
             [@ EXCEPT !.results = AggregateResults(requests[r].allResults, requests[r].query),
                       !.status = "OK",
                       !.pc = "done"]]
    /\ UNCHANGED <<pipelineVars, fallbackVars, directionsServiceInstance,
                   clockVars, debounceVars, hookVars, cacheVars>>

NextConcurrent ==
    \/ \E r \in RequestIds : ConcurrentGetService(r)
    \/ \E r \in RequestIds : ConcurrentLocate(r)
    \/ \E r \in RequestIds : ConcurrentProbe(r)
    \/ \E r \in RequestIds : ConcurrentExpand(r)
    \/ \E r \in RequestIds : ConcurrentSkipStation(r)
    \/ \E r \in RequestIds : ConcurrentSearchStation(r)
    \/ \E r \in RequestIds : ConcurrentAggregate(r)

SpecConcurrent == InitConcurrent /\ [][NextConcurrent]_vars


\* what a request returns when it runs alone and receives the given
\* collaborator responses: the stations ...
AloneStations(req) ==
    IF req.apiKey = "test_key"
    THEN getMockStationResponse(req.stationCount)
    ELSE getStationsInRange(req.nearestStation, req.stationCount,
                            RoutesOf(req.probes))

\* ... the hits collected by the loop over them, the k-th search made
\* receiving the k-th response ...
RECURSIVE FanoutAlone(_, _, _, _)
FanoutAlone(stations, searches, processed, collected) ==
    IF stations = <<>> \/ searches = <<>> THEN collected
    ELSE IF Head(stations).placeId \in processed
    THEN FanoutAlone(Tail(stations), searches, processed, collected)
    ELSE FanoutAlone(Tail(stations), Tail(searches),
                     processed \cup {Head(stations).placeId},
                     IF Head(searches).kind = "ok"
                     THEN collected \o AnnotateResults(Head(searches).results,
                                                       Head(stations))
                     ELSE collected)

\* the number of searches the loop makes over a station list
RECURSIVE SearchesAlone(_, _)
SearchesAlone(stations, processed) ==
    IF stations = <<>> THEN 0
    ELSE IF Head(stations).placeId \in processed
    THEN SearchesAlone(Tail(stations), processed)
    ELSE 1 + SearchesAlone(Tail(stations),
                           processed \cup {Head(stations).placeId})

\* ... and the response
AloneResults(req) ==
    AggregateResults(FanoutAlone(AloneStations(req), req.searches, {}, <<>>),
                     req.query)

\* C26: two station-mode requests whose collaborator calls interleave in any
\* order do not influence each other: each returns what it returns when run
\* alone with the collaborator responses it received.
C26_RequestsIndependent ==
    \A r \in DOMAIN requests :
       /\ requests[r].pc \in {"fanout", "aggregate", "done"} =>
             requests[r].stationsInRange = AloneStations(requests[r])
       /\ requests[r].pc = "done" =>
             /\ Len(requests[r].searches) =
                   SearchesAlone(AloneStations(requests[r]), {})
             /\ requests[r].results = AloneResults(requests[r])
             /\ requests[r].status = "OK"

\* both requests have answered, the second having made its searches of the
\* stations the first one had already searched while the first was under way
C26_Witness ==
    /\ DOMAIN requests = RequestIds
    /\ \A r \in RequestIds : requests[r].pc = "done"
    /\ directionsServiceInstance = "live"
    /\ requests[1].stationCount # requests[2].stationCount
    /\ requests[1].results # <<>>
    /\ requests[2].results # <<>>
    /\ requests[1].results # requests[2].results
    /\ requests[1].processedStations \cap requests[2].processedStations # {}
    /\ Len(requests[2].searches) < Len(requests[2].stationsInRange)


(***************************************************************************)
(* debounce(func, delay): the returned function, its timer and the clock   *)
(***************************************************************************)
\* the delay of the debounced function, in ticks of the clock
DebounceDelay == 3
\* the calls made and the last instant of the clock
MaxDebounceCalls == 3
MaxTime == 6

DebounceArgs == {"arg1", "arg2", "arg3"}

InitDebounce ==
    /\ PipelineIdle
    /\ FallbackIdle /\ ConcurrentIdle /\ ClockAtZero /\ HookIdle /\ CacheIdle
    /\ DebounceIdle

\* the returned function without its clearTimeout
DebouncedCallNoClear ==
    /\ Len(debounceCalls) < MaxDebounceCalls
    /\ \E args \in DebounceArgs :
         /\ timers' = timers \cup
                         {[id |-> Len(debounceCalls) + 1,
                           due |-> now + DebounceDelay, args |-> args]}
         /\ debounceCalls' =
               Append(debounceCalls, [time |-> now, args |-> args])
    /\ timeoutId' = Len(debounceCalls) + 1
    /\ UNCHANGED <<pipelineVars, fallbackVars, concurrentVars, clockVars,
                   invocations, hookVars, cacheVars>>

\* the returned function: clearTimeout(timeoutId), then
\* timeoutId = setTimeout(() => func(...args), delay)
DebouncedCall ==
    /\ Len(debounceCalls) < MaxDebounceCalls
    /\ \E args \in DebounceArgs :
         /\ timers' = {t \in timers : t.id # timeoutId} \cup
                         {[id |-> Len(debounceCalls) + 1,
                           due |-> now + DebounceDelay, args |-> args]}
         /\ debounceCalls' =
               Append(debounceCalls, [time |-> now, args |-> args])
    /\ timeoutId' = Len(debounceCalls) + 1
    /\ UNCHANGED <<pipelineVars, fallbackVars, concurrentVars, clockVars,
                   invocations, hookVars, cacheVars>>

\* a timer whose delay has elapsed runs its callback: func(...args);
\* calls counts the calls of the debounced function made before
TimerFires ==
    /\ \E t \in timers :
         /\ now >= t.due
         /\ timers' = timers \ {t}
         /\ invocations' =
               Append(invocations,
                      [time |-> now, args |-> t.args,
                       calls |-> Len(debounceCalls)])
    /\ UNCHANGED <<pipelineVars, fallbackVars, concurrentVars, clockVars,
                   timeoutId, debounceCalls, hookVars, cacheVars>>

\* time passes; a timer that is due may run late
DebounceTick ==
    /\ now < MaxTime
    /\ now' = now + 1
    /\ UNCHANGED <<pipelineVars, fallbackVars, concurrentVars, debounceVars,
                   hookVars, cacheVars>>

NextDebounce ==
    \/ DebouncedCall
    \/ TimerFires
    \/ DebounceTick

SpecDebounce == InitDebounce /\ [][NextDebounce]_vars

LastCall == debounceCalls[Len(debounceCalls)]

\* the wrapped function has run since the last call
InvokedSinceLastCall ==
    \E k \in 1..Len(invocations) :
       invocations[k].calls = Len(debounceCalls)

\* C27: the wrapped function of a debounced function with delay d is not
\* invoked before d has elapsed since the last call, a series of calls each
\* less than d after the previous one leads to exactly one invocation, and
\* that invocation has the arguments of the last call.
C27_Debounce ==
    /\ \A k \in 1..Len(invocations) :
          /\ invocations[k].calls >= 1
          /\ invocations[k].args = debounceCalls[invocations[k].calls].args
          /\ invocations[k].time
                >= debounceCalls[invocations[k].calls].time + DebounceDelay
          /\ \A j \in 1..Len(invocations) :
                j # k => invocations[j].calls # invocations[k].calls
    /\ (debounceCalls # <<>> /\ ~InvokedSinceLastCall) =>
          timers = {[id |-> timeoutId,
                     due |-> LastCall.time + DebounceDelay,
                     args |-> LastCall.args]}
    /\ (debounceCalls = <<>> \/ InvokedSinceLastCall) => timers = {}

\* three calls with different arguments, each one tick after the previous
\* one, and the one invocation they lead to, DebounceDelay after the last
C27_Witness ==
    /\ Len(debounceCalls) = 3
    /\ \A i \in 1..3 : debounceCalls[i].time = i - 1
    /\ debounceCalls[1].args = "arg1"
    /\ debounceCalls[2].args = "arg2"
    /\ debounceCalls[3].args = "arg3"
    /\ invocations = <<[time |-> 2 + DebounceDelay, args |-> "arg3",
                        calls |-> 3]>>
    /\ now = MaxTime


(***************************************************************************)
(* The error code on its way to the HTTP status                            *)
(***************************************************************************)
\* handleApiError: the switch on apiError.code
statusCode(error) ==
    CASE error.code = "INVALID_REQUEST"  -> 400
      [] error.code = "API_KEY_ERROR"    -> 401
      [] error.code = "RATE_LIMIT_ERROR" -> 429
      [] OTHER                           -> 500

\* C28: when the station place search fails with a rate-limit or an API-key
\* error, the error that reaches the API handler still carries the code
\* RATE_LIMIT_ERROR or API_KEY_ERROR, and the response status is 429 or 401.
C28_ErrorCodeSurvivesRetry ==
    (pc = "failed" /\ caught.code \in {"RATE_LIMIT_ERROR", "API_KEY_ERROR"}) =>
        /\ lastError.code = caught.code
        /\ statusCode(lastError) = statusCode(caught)
        /\ statusCode(lastError) \in {429, 401}


(***************************************************************************)
(* useStationSearch: searches started from the component, their fetches in *)
(* flight and the responses arriving in any order.  A StationInfo is       *)
(* represented by its name.                                                *)
(***************************************************************************)
\* the searches started on one hook
MaxSearches == 2

HookLocations == {"O", "M1"}

\* what /api/stations answers for a location with stationCount 1:
\* data.stationsInRange, whose first entry is data.nearestStation
StationsAround(location) ==
    IF location = "O" THEN <<"A", "C">> ELSE <<"Shibuya", "Harajuku">>

StationSearchFailed == "station search failed"
NearestSearchFailed == "nearest station search failed"

InitHook ==
    /\ PipelineIdle
    /\ FallbackIdle /\ ConcurrentIdle /\ ClockAtZero /\ DebounceIdle
    /\ CacheIdle
    /\ HookIdle

\* map.set(key, value)
MapSet(map, key, value) ==
    [k \in DOMAIN map \cup {key} |-> IF k = key THEN value ELSE map[k]]

\* searchStationsInternal up to its await: a cache hit sets the state and
\* returns, otherwise loading is set and the fetch is sent
StartSearchStations ==
    /\ Len(started) < MaxSearches
    /\ \E location \in HookLocations :
         IF location \in DOMAIN cacheRef
         THEN /\ hookState' =
                    [hookState EXCEPT
                       !.nearestStation = cacheRef[location][1],
                       !.stationsInRange = cacheRef[location],
                       !.loading = FALSE,
                       !.error = "null"]
              /\ started' =
                    Append(started, [kind |-> "stations",
                                     location |-> location,
                                     outcome |-> "cached"])
              /\ UNCHANGED inFlight
         ELSE /\ hookState' =
                    [hookState EXCEPT !.loading = TRUE, !.error = "null"]
              /\ started' =
                    Append(started, [kind |-> "stations",
                                     location |-> location,
                                     outcome |-> "pending"])
              /\ inFlight' = inFlight \cup {Len(started) + 1}
    /\ UNCHANGED <<pipelineVars, fallbackVars, concurrentVars, clockVars,
                   debounceVars, cacheRef, nearestStationCacheRef, cacheVars>>

\* findNearestStationInternal up to its await
StartFindNearest ==
    /\ Len(started) < MaxSearches
    /\ \E location \in HookLocations :
         IF location \in DOMAIN nearestStationCacheRef
         THEN /\ hookState' =
                    [hookState EXCEPT
                       !.nearestStation = nearestStationCacheRef[location],
                       !.loading = FALSE,
                       !.error = "null"]
              /\ started' =
                    Append(started, [kind |-> "nearest",
                                     location |-> location,
                                     outcome |-> "cached"])
              /\ UNCHANGED inFlight
         ELSE /\ hookState' =
                    [hookState EXCEPT !.loading = TRUE, !.error = "null"]
              /\ started' =
                    Append(started, [kind |-> "nearest",
                                     location |-> location,
                                     outcome |-> "pending"])
              /\ inFlight' = inFlight \cup {Len(started) + 1}
    /\ UNCHANGED <<pipelineVars, fallbackVars, concurrentVars, clockVars,
                   debounceVars, cacheRef, nearestStationCacheRef, cacheVars>>

\* the response of a /api/stations fetch arrives: the rest of
\* searchStationsInternal, its try or its catch
StationsResponse ==
    /\ \E id \in inFlight :
         /\ started[id].kind = "stations"
         /\ inFlight' = inFlight \ {id}
         /\ \E outcome \in {"ok", "error"} :
              /\ started' = [started EXCEPT ![id].outcome = outcome]
              /\ IF outcome = "ok"
                 THEN /\ hookState' =
                            [nearestStation |->
                                StationsAround(started[id].location)[1],
                             stationsInRange |->
                                StationsAround(started[id].location),
                             loading |-> FALSE,
                             error |-> "null"]
                      /\ cacheRef' =
                            MapSet(cacheRef, started[id].location,
                                   StationsAround(started[id].location))
                      /\ nearestStationCacheRef' =
                            MapSet(nearestStationCacheRef,
                                   started[id].location,
                                   StationsAround(started[id].location)[1])
                 ELSE /\ hookState' =
                            [nearestStation |-> "null",
                             stationsInRange |-> <<>>,
                             loading |-> FALSE,
                             error |-> StationSearchFailed]
                      /\ UNCHANGED <<cacheRef, nearestStationCacheRef>>
    /\ UNCHANGED <<pipelineVars, fallbackVars, concurrentVars, clockVars,
                   debounceVars, cacheVars>>

\* the response of a /api/stations/nearest fetch arrives: the rest of
\* findNearestStationInternal
NearestResponse ==
    /\ \E id \in inFlight :
         /\ started[id].kind = "nearest"
         /\ inFlight' = inFlight \ {id}
         /\ \E outcome \in {"ok", "error"} :
              /\ started' = [started EXCEPT ![id].outcome = outcome]
              /\ IF outcome = "ok"
                 THEN /\ hookState' =
                            [hookState EXCEPT
                               !.nearestStation =
                                  StationsAround(started[id].location)[1],
                               !.loading = FALSE,
                               !.error = "null"]
                      /\ nearestStationCacheRef' =
                            MapSet(nearestStationCacheRef,
                                   started[id].location,
                                   StationsAround(started[id].location)[1])
                 ELSE /\ hookState' =
                            [hookState EXCEPT
                               !.nearestStation = "null",
                               !.loading = FALSE,
                               !.error = NearestSearchFailed]
                      /\ UNCHANGED nearestStationCacheRef
    /\ UNCHANGED <<pipelineVars, fallbackVars, concurrentVars, clockVars,
                   debounceVars, cacheRef, cacheVars>>

NextHook ==
    \/ StartSearchStations
    \/ StartFindNearest
    \/ StationsResponse
    \/ NearestResponse

SpecHook == InitHook /\ [][NextHook]_vars

LastStarted == started[Len(started)]

\* the state shows the outcome of the given search
ShowsOutcomeOf(search) ==
    IF search.kind = "stations"
    THEN IF search.outcome = "error"
         THEN /\ hookState.nearestStation = "null"
              /\ hookState.stationsInRange = <<>>
              /\ hookState.error = StationSearchFailed
         ELSE /\ hookState.nearestStation = StationsAround(search.location)[1]
              /\ hookState.stationsInRange = StationsAround(search.location)
              /\ hookState.error = "null"
    ELSE IF search.outcome = "error"
         THEN /\ hookState.nearestStation = "null"
              /\ hookState.error = NearestSearchFailed
         ELSE /\ hookState.nearestStation = StationsAround(search.location)[1]
              /\ hookState.error = "null"

\* C29: when every search started on the hook has completed, the state
\* (nearest station, station list, error) is that of the search started
\* last, whichever response arrived last, and loading is true as long as a
\* request is in flight.
C29_LatestSearchWins ==
    /\ inFlight # {} => hookState.loading
    /\ (inFlight = {} /\ started # <<>>) => ShowsOutcomeOf(LastStarted)


(***************************************************************************)
(* SearchCache: get, set, delete, clear and cleanup against the clock      *)
(***************************************************************************)
\* DEFAULT_TTL, in milliseconds
DefaultTtl == 300000     \* 5 * 60 * 1000
\* the operations applied to a cache, and how far past DefaultTtl the clock runs
MaxCacheOps == 3
CacheSlack == 2

CacheKeys == {"k1", "k2"}
CacheData == {"v1", "v2"}
\* the ttl argument of set: one millisecond, or omitted
NoTtl == [given |-> FALSE, ms |-> 0]
CacheTtls == {[given |-> TRUE, ms |-> 1], NoTtl}

\* ttl: number = this.DEFAULT_TTL
TtlOf(ttl) == IF ttl.given THEN ttl.ms ELSE DefaultTtl

InitCache ==
    /\ PipelineIdle
    /\ FallbackIdle /\ ConcurrentIdle /\ ClockAtZero /\ DebounceIdle
    /\ HookIdle
    /\ CacheIdle

\* map.delete(key)
MapDelete(map, key) == [k \in DOMAIN map \ {key} |-> map[k]]

CacheOp(op, key, data, ttl) ==
    [op |-> op, key |-> key, data |-> data, ttl |-> ttl, time |-> now]

\* get that does not look at expiresAt
CacheGetNoExpiry ==
    /\ Len(cacheOps) < MaxCacheOps
    /\ \E key \in CacheKeys :
         /\ cacheOps' = Append(cacheOps, CacheOp("get", key, "", NoTtl))
         /\ getResult' = IF key \in DOMAIN cache THEN cache[key].data
                         ELSE "null"
         /\ UNCHANGED cache
    /\ UNCHANGED <<pipelineVars, fallbackVars, concurrentVars, clockVars,
                   debounceVars, hookVars>>

\* get(key): null for a missing entry, null and delete for an entry whose
\* expiresAt lies before Date.now(), entry.data otherwise
CacheGet ==
    /\ Len(cacheOps) < MaxCacheOps
    /\ \E key \in CacheKeys :
         /\ cacheOps' = Append(cacheOps, CacheOp("get", key, "", NoTtl))
         /\ IF key \notin DOMAIN cache
            THEN getResult' = "null" /\ UNCHANGED cache
            ELSE IF now > cache[key].expiresAt
            THEN getResult' = "null" /\ cache' = MapDelete(cache, key)
            ELSE getResult' = cache[key].data /\ UNCHANGED cache
    /\ UNCHANGED <<pipelineVars, fallbackVars, concurrentVars, clockVars,
                   debounceVars, hookVars>>

\* set(key, data, ttl = DEFAULT_TTL)
CacheSet ==
    /\ Len(cacheOps) < MaxCacheOps
    /\ \E key \in CacheKeys, data \in CacheData, ttl \in CacheTtls :
         /\ cacheOps' = Append(cacheOps, CacheOp("set", key, data, ttl))
         /\ cache' = MapSet(cache, key,
                            [data |-> data, timestamp |-> now,
                             expiresAt |-> now + TtlOf(ttl)])
    /\ UNCHANGED <<pipelineVars, fallbackVars, concurrentVars, clockVars,
                   debounceVars, hookVars, getResult>>

\* delete(key)
CacheDelete ==
    /\ Len(cacheOps) < MaxCacheOps
    /\ \E key \in CacheKeys :
         /\ cacheOps' = Append(cacheOps, CacheOp("delete", key, "", NoTtl))
         /\ cache' = MapDelete(cache, key)
    /\ UNCHANGED <<pipelineVars, fallbackVars, concurrentVars, clockVars,
                   debounceVars, hookVars, getResult>>

\* clear()
CacheClear ==
    /\ Len(cacheOps) < MaxCacheOps
    /\ cacheOps' = Append(cacheOps, CacheOp("clear", "", "", NoTtl))
    /\ cache' = <<>>
    /\ UNCHANGED <<pipelineVars, fallbackVars, concurrentVars, clockVars,
                   debounceVars, hookVars, getResult>>

\* cleanup(): every entry with now > expiresAt is deleted
CacheCleanup ==
    /\ Len(cacheOps) < MaxCacheOps
    /\ cacheOps' = Append(cacheOps, CacheOp("cleanup", "", "", NoTtl))
    /\ cache' = [k \in {key \in DOMAIN cache : ~(now > cache[key].expiresAt)}
                   |-> cache[k]]
    /\ UNCHANGED <<pipelineVars, fallbackVars, concurrentVars, clockVars,
                   debounceVars, hookVars, getResult>>

\* Date.now() moves on, by a millisecond (at most CacheSlack of them in a
\* row) or by DEFAULT_TTL (once)
CacheTick ==
    /\ \E step \in {1, DefaultTtl} :
         /\ (now + step) % DefaultTtl <= CacheSlack
         /\ now + step <= DefaultTtl + CacheSlack
         /\ now' = now + step
    /\ UNCHANGED <<pipelineVars, fallbackVars, concurrentVars, debounceVars,
                   hookVars, cacheVars>>

NextCache ==
    \/ CacheGet
    \/ CacheSet
    \/ CacheDelete
    \/ CacheClear
    \/ CacheCleanup
    \/ CacheTick

SpecCache == InitCache /\ [][NextCache]_vars

\* the positions before n of the sets of a key that no later delete of the
\* key and no later clear (before n) has undone
LiveSets(key, n) ==
    {i \in 1..(n - 1) :
        /\ cacheOps[i].op = "set" /\ cacheOps[i].key = key
        /\ \A j \in (i + 1)..(n - 1) :
              /\ ~(cacheOps[j].op = "delete" /\ cacheOps[j].key = key)
              /\ cacheOps[j].op # "clear"}

LatestOf(positions) == CHOOSE i \in positions : \A j \in positions : j <= i

\* what the get at position n is to return
ExpectedGet(n) ==
    LET sets == LiveSets(cacheOps[n].key, n)
    IN  IF sets = {} THEN "null"
        ELSE IF cacheOps[n].time >
                   cacheOps[LatestOf(sets)].time
                      + TtlOf(cacheOps[LatestOf(sets)].ttl)
        THEN "null"
        ELSE cacheOps[LatestOf(sets)].data

CleanupStep ==
    /\ Len(cacheOps') = Len(cacheOps) + 1
    /\ cacheOps'[Len(cacheOps')].op = "cleanup"

\* C30: after any sequence of set, get, delete, clear, cleanup and clock
\* advances, get(key) returns the value of the most recent set of the key
\* while that entry is unexpired and not deleted and null otherwise (never
\* data whose expiry time has passed), and cleanup removes exactly the
\* expired entries and leaves every unexpired entry unchanged.
C30_CacheContract ==
    /\ [](/\ (cacheOps # <<>> /\ cacheOps[Len(cacheOps)].op = "get") =>
                getResult = ExpectedGet(Len(cacheOps))
          /\ \A k \in DOMAIN cache : cache[k].expiresAt >= cache[k].timestamp)
    /\ [][CleanupStep =>
            /\ DOMAIN cache' = {k \in DOMAIN cache : cache[k].expiresAt >= now}
            /\ \A k \in DOMAIN cache' : cache'[k] = cache[k]]_vars

\* k1 was set twice, the second time with the default ttl; after DefaultTtl
\* a get still returns the second value
C30_Witness ==
    /\ Len(cacheOps) = 3
    /\ cacheOps[1].op = "set" /\ cacheOps[1].key = "k1"
    /\ cacheOps[1].data = "v1" /\ cacheOps[1].ttl.given
    /\ cacheOps[2].op = "set" /\ cacheOps[2].key = "k1"
    /\ cacheOps[2].data = "v2" /\ ~cacheOps[2].ttl.given
    /\ cacheOps[2].time = 2
    /\ cacheOps[3].op = "get" /\ cacheOps[3].key = "k1"
    /\ cacheOps[3].time = DefaultTtl + 2
    /\ getResult = "v2"

=============================================================================
